---------------------------- MODULE Spec2Model ----------------------------
(***************************************************************************)
(* State-machine model of the depth-diving game: Game, Submarine           *)
(* (src/js/Game.js), CollisionDetector, GameObject (src/unnamed/part_000), *)
(* InputHandler (src/js/InputHandler.js) and the part of Renderer.render   *)
(* that fixes the world-to-screen translation (src/js/Renderer.js).        *)
(*                                                                         *)
(* Units.  JavaScript numbers are doubles; the model is fixed-point:       *)
(*   lengths and positions   1/100 pixel   (x, y, width, screenX, ...)     *)
(*   oxygen, energy, health  1/100 point   (100 is 10000)                  *)
(*   sonarCooldown           1/1000 second (5 is 5000)                     *)
(*   rotation                1/100 degree                                  *)
(*   depth, score            units of the source (depth moves by 5)        *)
(*   time                    milliseconds                                  *)
(* Products with a fractional factor are rounded toward zero.              *)
(***************************************************************************)
EXTENDS Integers, Sequences, FiniteSets, TLC

(***************************************************************************)
(* Bounds of the exploration.                                              *)
(***************************************************************************)
\* number of steps (frames, input events, timer callbacks) of one behaviour
MaxSteps == 3

(***************************************************************************)
(* Environment values.                                                     *)
(***************************************************************************)
\* Date.now() when the page starts; requestAnimationFrame timestamps count
\* from the page start, Date.now() from the epoch (scaled to fit TLC's
\* integers: the real value is about 1.7e12)
Epoch == 1000000

\* the keys Submarine.update and Game.update read, which the player holds
MoveKeys == {"a", "d", "w", "s"}

\* the keys handleKeyDown acts on at once, which the player taps
ActionKeys == {" ", "arrowup", "arrowdown", "m", "u", "escape", "b"}

\* milliseconds between two animation frames: a 60 Hz frame and a slow frame
\* (longer than the resource interval)
FrameGaps == {16, 60}

\* a frame after the page was hidden for over three seconds (longer than the
\* sonar window), considered while a sonar timer is pending
HiddenGaps == {3100}

(***************************************************************************)
(* Arithmetic helpers.                                                     *)
(***************************************************************************)
Min(a, b) == IF a <= b THEN a ELSE b

Max(a, b) == IF a >= b THEN a ELSE b

Abs(a) == IF a >= 0 THEN a ELSE -a

\* n * num / den rounded toward zero (a double product, in fixed point)
Scale(n, num, den) == IF n * num >= 0 THEN (n * num) \div den ELSE -((-(n * num)) \div den)

RECURSIVE SeqSum(_)
SeqSum(s) == IF s = <<>> THEN 0 ELSE Head(s) + SeqSum(Tail(s))

SeqToSet(s) == {s[i] : i \in 1..Len(s)}

(***************************************************************************)
(* GameObject (src/unnamed/part_000).  An entity is a record               *)
(*   [id, type, x, y, width, height, velocityX, velocityY, visible].       *)
(* health, speed and createdAt are written at spawn and never read.        *)
(***************************************************************************)
GameObject(id, type, x, y, width, height, vx, vy) ==
    [id |-> id, type |-> type, x |-> x, y |-> y, width |-> width,
     height |-> height, velocityX |-> vx, velocityY |-> vy, visible |-> FALSE]

\* a hitbox of 80% of the bounding rectangle whatever the type
getHitboxShrunk(o) ==
    [x      |-> o.x + (o.width * 10) \div 100,
     y      |-> o.y + (o.height * 10) \div 100,
     width  |-> (o.width * 80) \div 100,
     height |-> (o.height * 80) \div 100]

\* GameObject.getHitbox: the per-type fractions of the bounding rectangle
getHitbox(o) ==
    LET f == CASE o.type = "shark"  -> [ox |-> 10, oy |-> 20, w |-> 80, h |-> 60]
               [] o.type = "squid"  -> [ox |-> 20, oy |-> 10, w |-> 60, h |-> 80]
               [] o.type = "angler" -> [ox |-> 15, oy |-> 20, w |-> 70, h |-> 60]
               [] o.type = "viper"  -> [ox |-> 5,  oy |-> 10, w |-> 90, h |-> 80]
               [] o.type = "rock"   -> [ox |-> 10, oy |-> 10, w |-> 80, h |-> 80]
               [] o.type = "bubble" -> [ox |-> 15, oy |-> 15, w |-> 70, h |-> 70]
               [] OTHER             -> [ox |-> 0,  oy |-> 0,  w |-> 100, h |-> 100]
    IN  [x      |-> o.x + Scale(o.width, f.ox, 100),
         y      |-> o.y + Scale(o.height, f.oy, 100),
         width  |-> Scale(o.width, f.w, 100),
         height |-> Scale(o.height, f.h, 100)]

\* GameObject.isOffScreen(800, 600, depth)
isOffScreen(o, screenWidth, depth) ==
    \/ o.x < -20000
    \/ o.x > screenWidth + 20000
    \/ Abs(o.y - depth * 100) > 120000

(***************************************************************************)
(* CollisionDetector (src/unnamed/part_000).                               *)
(***************************************************************************)
\* an overlap test that counts touching rectangles
checkAABBClosed(rect1, rect2) ==
    /\ rect1.x <= rect2.x + rect2.width
    /\ rect1.x + rect1.width >= rect2.x
    /\ rect1.y <= rect2.y + rect2.height
    /\ rect1.y + rect1.height >= rect2.y

checkAABB(rect1, rect2) ==
    /\ rect1.x < rect2.x + rect2.width
    /\ rect1.x + rect1.width > rect2.x
    /\ rect1.y < rect2.y + rect2.height
    /\ rect1.y + rect1.height > rect2.y

\* a depth offset without the 300 of the craft's rest position
calculateDepthOffsetNoBase(d, camOffset) == -(d * 100) + camOffset

\* -depth + 300 + cameraOffset
calculateDepthOffset(d, camOffset) == -(d * 100) + 30000 + camOffset

getWorldObjectScreenHitbox(o, depthOffset) ==
    LET baseHitbox == getHitbox(o)
    IN  [x |-> baseHitbox.x, y |-> baseHitbox.y + depthOffset,
         width |-> baseHitbox.width, height |-> baseHitbox.height]

\* the cooldown table is a function from the ids present to their stamps
MapDelete(m, id) == [i \in DOMAIN m \ {id} |-> m[i]]

MapSet(m, id, v) == [i \in DOMAIN m \cup {id} |-> IF i = id THEN v ELSE m[i]]

cooldownDuration == 100

\* a lookup that never finds a cooldown
isInCollisionCooldownNever(cd, o, now) == [inCooldown |-> FALSE, table |-> cd]

\* a lookup that lets an entry expire only after more than cooldownDuration
isInCollisionCooldownStrict(cd, o, now) ==
    IF o.id \notin DOMAIN cd THEN [inCooldown |-> FALSE, table |-> cd]
    ELSE IF now - cd[o.id] > cooldownDuration
         THEN [inCooldown |-> FALSE, table |-> MapDelete(cd, o.id)]
         ELSE [inCooldown |-> TRUE, table |-> cd]

\* isInCollisionCooldown(obj) at time now: the answer and the table it leaves
\* (an expired entry is deleted by the lookup)
isInCollisionCooldown(cd, o, now) ==
    IF o.id \notin DOMAIN cd THEN [inCooldown |-> FALSE, table |-> cd]
    ELSE IF now - cd[o.id] >= cooldownDuration
         THEN [inCooldown |-> FALSE, table |-> MapDelete(cd, o.id)]
         ELSE [inCooldown |-> TRUE, table |-> cd]

\* setCollisionCooldown(obj)
setCollisionCooldown(cd, o, now) == MapSet(cd, o.id, now)

\* one iteration of the forEach of checkMonsterCollisions / checkObstacleCollisions:
\* acc holds the collisions pushed so far and the table
passStep(acc, o, now, subScreenHitbox, depthOffset) ==
    LET look == isInCollisionCooldown(acc.table, o, now)
    IN  IF ~look.inCooldown
           /\ checkAABB(subScreenHitbox, getWorldObjectScreenHitbox(o, depthOffset))
        THEN [collisions |-> Append(acc.collisions, o),
              table |-> setCollisionCooldown(look.table, o, now)]
        ELSE [collisions |-> acc.collisions, table |-> look.table]

RECURSIVE passLoop(_, _, _, _, _)
passLoop(objs, acc, now, subScreenHitbox, depthOffset) ==
    IF objs = <<>> THEN acc
    ELSE passLoop(Tail(objs), passStep(acc, Head(objs), now, subScreenHitbox, depthOffset),
                  now, subScreenHitbox, depthOffset)

\* the collided objects and the table after the pass
cooldownGatedPass(objs, cd, now, subScreenHitbox, depthOffset) ==
    passLoop(objs, [collisions |-> <<>>, table |-> cd], now, subScreenHitbox, depthOffset)

checkMonsterCollisions(subScreenHitbox, monsterList, cd, now, d, camOffset) ==
    cooldownGatedPass(monsterList, cd, now, subScreenHitbox, calculateDepthOffset(d, camOffset))

\* an obstacle pass held back by any entry of the table
checkObstacleCollisionsAnyEntry(subScreenHitbox, obstacleList, cd, now, d, camOffset) ==
    IF DOMAIN cd # {}
    THEN [collisions |-> <<>>, table |-> cd]
    ELSE cooldownGatedPass(obstacleList, cd, now, subScreenHitbox,
                           calculateDepthOffset(d, camOffset))

checkObstacleCollisions(subScreenHitbox, obstacleList, cd, now, d, camOffset) ==
    cooldownGatedPass(obstacleList, cd, now, subScreenHitbox, calculateDepthOffset(d, camOffset))

\* bubbles: no cooldown lookup, no stamp
checkBubbleCollisions(subScreenHitbox, bubbleList, d, camOffset) ==
    LET depthOffset == calculateDepthOffset(d, camOffset)
        Hit(b) == checkAABB(subScreenHitbox, getWorldObjectScreenHitbox(b, depthOffset))
    IN  SelectSeq(bubbleList, Hit)

\* a bubble pass gated by the cooldown table like the other two
bubblePassGated(subScreenHitbox, bubbleList, cd, now, d, camOffset) ==
    cooldownGatedPass(bubbleList, cd, now, subScreenHitbox, calculateDepthOffset(d, camOffset))

\* checkBubbleCollisions as a method of the detector that holds the table cd:
\* the bubbles it returns and the table it leaves
bubblePass(subScreenHitbox, bubbleList, cd, now, d, camOffset) ==
    [collisions |-> checkBubbleCollisions(subScreenHitbox, bubbleList, d, camOffset),
     table |-> cd]

\* a renderer that subtracts the camera offset
renderDepthOffsetMirrored(d, camOffset) == -(d * 100) + 30000 - camOffset

(***************************************************************************)
(* Renderer.render (src/js/Renderer.js): the translation applied to the    *)
(* world objects, ctx.translate(0, -gameState.depth + 300 + cameraOffset). *)
(***************************************************************************)
renderDepthOffset(d, camOffset) == -(d * 100) + 30000 + camOffset

(***************************************************************************)
(* Submarine (src/js/Game.js).  A craft is a record                        *)
(*   [screenX, screenY, rotation, targetRotation];                         *)
(* width 100, height 60 and centerY 270 are fixed by the constructor call. *)
(***************************************************************************)
subWidth == 10000

subHeight == 6000

centerY == 27000

maxVerticalOffset == 8000

NewSubmarine == [screenX |-> 35000, screenY |-> centerY, rotation |-> 0, targetRotation |-> 0]

\* Submarine.update(keys, deltaTime): the craft after the call and worldOffsetY
\* a craft that stays in place and lets the up key override the down key
SubmarineUpdateUpWins(sub, held, deltaTime) ==
    [sub |-> sub,
     worldOffsetY |-> IF "w" \in held THEN 18 * deltaTime
                      ELSE IF "s" \in held THEN -(18 * deltaTime) ELSE 0]

SubmarineUpdate(sub, held, deltaTime) ==
    LET speed == 18 * deltaTime
        half  == 9 * deltaTime
        sx == IF "a" \in held THEN Max(0, sub.screenX - speed)
              ELSE IF "d" \in held THEN Min(80000 - subWidth, sub.screenX + speed)
              ELSE sub.screenX
        tr == IF "a" \in held THEN Max(-1500, sub.targetRotation - 100)
              ELSE IF "d" \in held THEN Min(1500, sub.targetRotation + 100)
              ELSE Scale(sub.targetRotation, 9, 10)
        sy1 == IF "w" \in held THEN Max(centerY - maxVerticalOffset, sub.screenY - half)
               ELSE sub.screenY
        sy2 == IF "s" \in held THEN Min(centerY + maxVerticalOffset, sy1 + half)
               ELSE sy1
        wo  == IF "s" \in held THEN -speed ELSE IF "w" \in held THEN speed ELSE 0
    IN  [sub |-> [screenX |-> sx, screenY |-> sy2,
                  rotation |-> sub.rotation + Scale(tr - sub.rotation, 1, 10),
                  targetRotation |-> tr],
         worldOffsetY |-> wo]

\* Submarine.getScreenHitbox: 22.5% / 27.5% offsets, 55% x 45% extent
getScreenHitbox(sub) ==
    [x |-> sub.screenX + Scale(subWidth, 225, 1000),
     y |-> sub.screenY + Scale(subHeight, 275, 1000),
     width |-> Scale(subWidth, 55, 100),
     height |-> Scale(subHeight, 45, 100)]

\* a reset of the position alone
SubmarineResetPosition(sub) == [sub EXCEPT !.screenX = 35000, !.screenY = centerY]

\* Submarine.reset
SubmarineReset(sub) ==
    [sub EXCEPT !.screenX = 35000, !.screenY = centerY, !.rotation = 0, !.targetRotation = 0]

(***************************************************************************)
(* Game (src/js/Game.js).                                                  *)
(***************************************************************************)
VARIABLES
    gameState,          \* [oxygen, energy, health, depth, score, sonarActive, sonarCooldown]
    monsters,           \* sequences of entities
    obstacles,
    bubbles,
    upgrades,           \* [oxygenTank, advancedSonar, reinforcedHull, turboThrust]
    nextMonsterId,
    lastSpawnDepth,
    lastResourceUpdate,
    gameOverTriggered,
    gameOverReason,
    debugMode,
    menuOpen,           \* "none" (null), "missions" or "upgrades"
    claimedRewards,     \* set of reward depths
    lastFrameTime,
    submarine,
    keys,               \* InputHandler.keys
    cameraOffset,       \* InputHandler.cameraOffset
    targetCameraOffset, \* InputHandler.targetCameraOffset
    collisionCooldown,  \* CollisionDetector.collisionCooldown
    clock,              \* milliseconds since the page started
    sonarTimers,        \* deadlines (clock values) of the pending setTimeout callbacks
    endGameCalls,       \* history: calls of endGame since construction or restart
    tick,               \* history: what the last executed update saw and reported
    rendered,           \* history: what the last Renderer.render call used
    run,                \* history: restarts so far (the number of the current run)
    lastReport,         \* history: per id, the time and the count of its reports by
                        \* the cooldown-gated passes of the current run
    steps,              \* history: steps taken, for the exploration bound
    hudPresent,         \* the page holds the HUD elements updateHUD writes to
    loopRunning,        \* the game loop has requested its next animation frame
    removedIds,         \* history: ids of the entities removed in the current run
    listeners,          \* the event listeners attached to window: [type, fn]
    destroyed           \* history: InputHandler.destroy() has been called

vars == <<gameState, monsters, obstacles, bubbles, upgrades, nextMonsterId,
          lastSpawnDepth, lastResourceUpdate, gameOverTriggered, gameOverReason,
          debugMode, menuOpen, claimedRewards, lastFrameTime, submarine, keys,
          cameraOffset, targetCameraOffset, collisionCooldown, clock,
          sonarTimers, endGameCalls, tick, rendered, run, lastReport, steps,
          hudPresent, listeners, destroyed, loopRunning, removedIds>>

\* what update() owns (everything but the input state, the clock and the history)
coreVars == <<gameState, monsters, obstacles, bubbles, upgrades, nextMonsterId,
              lastSpawnDepth, lastResourceUpdate, gameOverTriggered, gameOverReason,
              claimedRewards, submarine, cameraOffset, collisionCooldown>>

\* Date.now()
DateNow(c) == Epoch + c

NewGameState == [oxygen |-> 10000, energy |-> 10000, health |-> 10000, depth |-> 0,
                 score |-> 0, sonarActive |-> FALSE, sonarCooldown |-> 0]

NoUpgrades == [oxygenTank |-> FALSE, advancedSonar |-> FALSE,
               reinforcedHull |-> FALSE, turboThrust |-> FALSE]

\* no update was called since construction or restart
NoTick == [ran |-> FALSE, suspended |-> FALSE]

\* the last update returned at line 316
SuspendedTick == [ran |-> FALSE, suspended |-> TRUE]

NoRender == [drawn |-> FALSE]

\* no rectangle drawn
NoRect == [x |-> 0, y |-> 0, width |-> 0, height |-> 0]

EmptyMap == [i \in {} |-> 0]

VictoryReason == "Vitoria! Voce alcancou o fundo do abismo!"

OxygenReason == "Oxigenio esgotado!"

HealthReason == "Submarino destruido!"

(***************************************************************************)
(* The pieces of Game.update.                                              *)
(***************************************************************************)
\* an update that forgets the game-over flag
updateSuspendedMenuOnly(over, menu) == menu # "none"

\* an update that forgets the open menu
updateSuspendedOverOnly(over, menu) == over

\* line 316: if (this.gameOverTriggered || this.menuOpen) return;
updateSuspended(over, menu) == over \/ menu # "none"

\* a camera that jumps to its target
updateCameraOffsetJump(cam, target) == target

\* InputHandler.updateCameraOffset: 10% of the gap to the target
updateCameraOffset(cam, target) == cam + Scale(target - cam, 1, 10)

\* lines 333-334
\* a depth that also rises with the up key
descendOrAscend(d, held) ==
    IF "s" \in held THEN Min(11000, d + 5) ELSE IF "w" \in held THEN Max(0, d - 5) ELSE d

descend(d, held) == IF "s" \in held THEN Min(11000, d + 5) ELSE d

Rewards == << [depth |-> 2000, oxygen |-> 2000, points |-> 500],
              [depth |-> 4000, oxygen |-> 3000, points |-> 1000],
              [depth |-> 6000, oxygen |-> 4000, points |-> 2000] >>

\* a reward that takes its points off the score
claimRewardCharging(st, reward, d) ==
    IF d >= reward.depth /\ reward.depth \notin st.claimed
    THEN [claimed |-> st.claimed \cup {reward.depth},
          oxygen  |-> Min(10000, st.oxygen + reward.oxygen),
          score   |-> st.score - reward.points]
    ELSE st

\* a reward that is not looked up in claimedRewards
claimRewardUnchecked(st, reward, d) ==
    IF d >= reward.depth
    THEN [claimed |-> st.claimed \cup {reward.depth},
          oxygen  |-> Min(10000, st.oxygen + reward.oxygen),
          score   |-> st.score + reward.points]
    ELSE st

\* one reward of the forEach of checkDepthRewards
claimReward(st, reward, d) ==
    IF d >= reward.depth /\ reward.depth \notin st.claimed
    THEN [claimed |-> st.claimed \cup {reward.depth},
          oxygen  |-> Min(10000, st.oxygen + reward.oxygen),
          score   |-> st.score + reward.points]
    ELSE st

RECURSIVE claimRewards(_, _, _)
claimRewards(st, rewards, d) ==
    IF rewards = <<>> THEN st
    ELSE claimRewards(claimReward(st, Head(rewards), d), Tail(rewards), d)

\* an unlock one step past the threshold
unlockUpgradesPast(upg, d) ==
    [oxygenTank     |-> upg.oxygenTank \/ d > 3000,
     advancedSonar  |-> upg.advancedSonar \/ d > 5000,
     reinforcedHull |-> upg.reinforcedHull \/ d > 7000,
     turboThrust    |-> upg.turboThrust \/ d > 9000]

unlockUpgrades(upg, d) ==
    [oxygenTank     |-> upg.oxygenTank \/ d >= 3000,
     advancedSonar  |-> upg.advancedSonar \/ d >= 5000,
     reinforcedHull |-> upg.reinforcedHull \/ d >= 7000,
     turboThrust    |-> upg.turboThrust \/ d >= 9000]

withUpgrades(st, upg, d) ==
    [claimed |-> st.claimed, oxygen |-> st.oxygen, score |-> st.score,
     upgrades |-> unlockUpgrades(upg, d)]

\* Game.checkDepthRewards
checkDepthRewards(oxygen, score, claimed, upg, d) ==
    withUpgrades(claimRewards([claimed |-> claimed, oxygen |-> oxygen, score |-> score],
                              Rewards, d),
                 upg, d)

\* lines 352-357: the throttled resource update
resourceUpdateDue(now, last) == now - last >= 50

\* a resource update that leaves the oxygen alone
decayOxygenNone(oxygen) == Max(0, oxygen)

decayOxygen(oxygen) == Max(0, oxygen - 5)

regenEnergy(energy) == Min(10000, energy + 2)

decaySonarCooldown(cd) == Max(0, cd - 16)

\* sin(t) * 0.5 for t in 1/100 radian, as a triangle wave of period 6.28
HalfSine(t) ==
    LET p == t % 628
    IN  IF p < 157 THEN Scale(p, 50, 157)
        ELSE IF p < 471 THEN Scale(314 - p, 50, 157)
        ELSE Scale(p - 628, 50, 157)

\* lines 365-376: one monster's motion
moveMonster(m, now, sonarActive) ==
    LET swimMotion == HalfSine(now \div 5 + m.x)
        x1 == m.x + m.velocityX
    IN  [m EXCEPT !.x = x1,
                  !.y = m.y + m.velocityY + swimMotion,
                  !.velocityX = IF x1 < -15000 \/ x1 > 95000 THEN -m.velocityX ELSE m.velocityX,
                  !.visible = sonarActive]

\* lines 365-376: the forEach over the monsters
moveMonsters(list, now, sonarActive) ==
    [i \in 1..Len(list) |-> moveMonster(list[i], now, sonarActive)]

\* a filter that keeps every object
cullNothing(list, d) == list

\* lines 379-381
cull(list, d) == LET Keep(o) == ~isOffScreen(o, 80000, d) IN SelectSeq(list, Keep)

\* a world that does not scroll
shiftWorldNone(list, worldOffsetY) == list

\* lines 327-329
shiftWorld(list, worldOffsetY) == [i \in 1..Len(list) |-> [list[i] EXCEPT !.y = @ + worldOffsetY]]

monsterDamage(upg) == IF upg.reinforcedHull THEN 700 ELSE 1000

obstacleDamage(upg) == IF upg.reinforcedHull THEN 1700 ELSE 2500

\* a pass that subtracts without Math.max(0, .)
applyDamageUnclamped(health, n, damage) == health - n * damage

\* a pass that applies the damage once for the whole list of collisions
applyDamageOnce(health, n, damage) == IF n = 0 THEN health ELSE Max(0, health - damage)

\* lines 392-396, 408-412: the damage of one pass, one Math.max(0, .) per collision
RECURSIVE applyDamage(_, _, _)
applyDamage(health, n, damage) ==
    IF n = 0 THEN health ELSE applyDamage(Max(0, health - damage), n - 1, damage)

\* lines 424-426
collectBubbles(oxygen, n) == IF n > 0 THEN Min(10000, oxygen + 1500 * n) ELSE oxygen

\* lines 398, 414, 429: filter(x => !collisions.includes(x))
removeCollided(list, collisions) ==
    LET Keep(o) == o \notin SeqToSet(collisions) IN SelectSeq(list, Keep)

\* a terminal check that does not look at the oxygen
terminalReasonNoOxygen(d, oxygen, health) ==
    IF d >= 11000 THEN VictoryReason
    ELSE IF health <= 0 THEN HealthReason
    ELSE ""

\* a terminal check that looks at the hull first
terminalReasonHullFirst(d, oxygen, health) ==
    IF health <= 0 THEN HealthReason
    ELSE IF oxygen <= 0 THEN OxygenReason
    ELSE IF d >= 11000 THEN VictoryReason
    ELSE ""

\* a terminal check that lets a hull at exactly 0 go on
terminalReasonHullBelowZero(d, oxygen, health) ==
    IF d >= 11000 THEN VictoryReason
    ELSE IF oxygen <= 0 THEN OxygenReason
    ELSE IF health < 0 THEN HealthReason
    ELSE ""

\* lines 436-442: the reason of the first terminal condition that holds, or ""
terminalReason(d, oxygen, health) ==
    IF d >= 11000 THEN VictoryReason
    ELSE IF oxygen <= 0 THEN OxygenReason
    ELSE IF health <= 0 THEN HealthReason
    ELSE ""

(***************************************************************************)
(* Procedural spawn.  Every Math.random() draw is an input chosen from a   *)
(* small set that holds the extremes of its range.                         *)
(***************************************************************************)
\* Math.random() * 300 of line 245 (depth moves by 5: 299 stands for [295, 300))
SpawnJitters == {0, 299}

\* type, direction, Math.random() * 400 and (Math.random() - 0.5) * 0.3 of one monster
MonsterDraws ==
    { [type |-> "shark", direction |-> 1,  yJitter |-> 0,     velocityY |-> -15],
      [type |-> "squid", direction |-> -1, yJitter |-> 39999, velocityY |-> 14] }

\* x, y jitter, width and height of an obstacle
ObstacleDraws == { [x |-> 5000, yJitter |-> 0, width |-> 8000, height |-> 11999] }

\* x and y jitter of a bubble
BubbleDraws == { [x |-> 77499, yJitter |-> 29999] }

\* the draw of Math.random() < 0.02 (or 0.025) that fails
NoDraw == [none |-> TRUE]

\* the obstacle and bubble draws of one tick: neither spawns, or both do
ProceduralDraws ==
    {<<NoDraw, NoDraw>>}
    \cup (ObstacleDraws \X BubbleDraws)

\* a spawn threshold drawn from [400, 1000)
spawnFiresLate(currentDepth, lastSpawn, jitter) ==
    currentDepth - lastSpawn >= 400 + 2 * jitter

\* line 245
spawnFires(currentDepth, lastSpawn, jitter) == currentDepth - lastSpawn >= 400 + jitter

\* line 248
enemyCount(currentDepth) == Min(1 + currentDepth \div 2000, 3)

typeWidth(type) ==
    IF type = "shark" THEN 15000 ELSE IF type = "angler" THEN 10000
    ELSE IF type = "viper" THEN 12000 ELSE 8000

typeHeight(type) ==
    IF type = "shark" THEN 10000 ELSE IF type = "angler" THEN 8000
    ELSE IF type = "viper" THEN 6000 ELSE 8000

baseSpeed(type) ==
    IF type = "viper" THEN 150 ELSE IF type = "shark" THEN 120
    ELSE IF type = "squid" THEN 80 ELSE 60

\* lines 258-271: the monster built from one draw
newMonster(id, draw, currentDepth) ==
    GameObject(id, draw.type,
               IF draw.direction > 0 THEN -10000 ELSE 90000,
               currentDepth * 100 + 60000 + draw.yJitter,
               typeWidth(draw.type), typeHeight(draw.type),
               draw.direction * Scale(baseSpeed(draw.type), 10000 + currentDepth, 10000),
               draw.velocityY)

\* an assignment that does not advance the counter
takeIdNoIncrement(nextId) == [id |-> nextId, nextId |-> nextId]

\* the id given to the next spawned object, and the counter after it
\* (monster.id = this.nextMonsterId++)
takeId(nextId) == [id |-> nextId, nextId |-> nextId + 1]

\* the for loop of spawnMonsters, one draw per monster
RECURSIVE spawnLoop(_, _, _, _)
spawnLoop(list, nextId, currentDepth, draws) ==
    IF draws = <<>> THEN [list |-> list, nextId |-> nextId]
    ELSE LET t == takeId(nextId)
         IN  spawnLoop(Append(list, newMonster(t.id, Head(draws), currentDepth)),
                       t.nextId, currentDepth, Tail(draws))

\* Game.spawnMonsters
spawnMonsters(list, nextId, lastSpawn, currentDepth, jitter, draws) ==
    IF spawnFires(currentDepth, lastSpawn, jitter)
    THEN LET r == spawnLoop(list, nextId, currentDepth, draws)
         IN  [monsters |-> r.list, nextId |-> r.nextId, lastSpawnDepth |-> currentDepth]
    ELSE [monsters |-> list, nextId |-> nextId, lastSpawnDepth |-> lastSpawn]

\* a spawn that does not look at the lengths of the lists
spawnProceduralElementsUncapped(obstacleList, bubbleList, nextId, currentDepth, od, bd) ==
    LET doO == od # NoDraw
        os  == IF doO
               THEN Append(obstacleList,
                           GameObject(nextId, "rock", od.x,
                                      currentDepth * 100 + 40000 + od.yJitter,
                                      od.width, od.height, 0, 0))
               ELSE obstacleList
        n1  == IF doO THEN nextId + 1 ELSE nextId
        doB == bd # NoDraw
        bs  == IF doB
               THEN Append(bubbleList,
                           GameObject(n1, "bubble", bd.x,
                                      currentDepth * 100 + 50000 + bd.yJitter,
                                      4000, 4000, 0, 0))
               ELSE bubbleList
    IN  [obstacles |-> os, bubbles |-> bs, nextId |-> IF doB THEN n1 + 1 ELSE n1]

\* Game.spawnProceduralElements
spawnProceduralElements(obstacleList, bubbleList, nextId, currentDepth, od, bd) ==
    LET doO == Len(obstacleList) < 4 /\ od # NoDraw
        tO  == takeId(nextId)
        os  == IF doO
               THEN Append(obstacleList,
                           GameObject(tO.id, "rock", od.x, currentDepth * 100 + 40000 + od.yJitter,
                                      od.width, od.height, 0, 0))
               ELSE obstacleList
        n1  == IF doO THEN tO.nextId ELSE nextId
        doB == Len(bubbleList) < 5 /\ bd # NoDraw
        tB  == takeId(n1)
        bs  == IF doB
               THEN Append(bubbleList,
                           GameObject(tB.id, "bubble", bd.x, currentDepth * 100 + 50000 + bd.yJitter,
                                      4000, 4000, 0, 0))
               ELSE bubbleList
    IN  [obstacles |-> os, bubbles |-> bs, nextId |-> IF doB THEN tB.nextId ELSE n1]

(***************************************************************************)
(* Game.update(deltaTime), executed at Date.now() = now (lines 318-445).   *)
(***************************************************************************)
\* the ids of the objects of a list
idsOf(list) == {list[i].id : i \in 1..Len(list)}

\* Game.updateHUD dereferences document.getElementById(...) unguarded: it
\* raises a TypeError when the elements are not in the page
updateHUDThrows(hud) == ~hud

\* Game.endGame: the flag, the reason and the count of calls
endGame(reason) ==
    /\ gameOverTriggered' = TRUE
    /\ gameOverReason' = reason
    /\ endGameCalls' = endGameCalls + 1

\* history: the objects a cooldown-gated pass reported at time now
RECURSIVE recordReports(_, _, _)
recordReports(log, collisions, now) ==
    IF collisions = <<>> THEN log
    ELSE recordReports(
             MapSet(log, Head(collisions).id,
                    [time |-> now, type |-> Head(collisions).type,
                     count |-> IF Head(collisions).id \in DOMAIN log
                               THEN log[Head(collisions).id].count + 1 ELSE 1]),
             Tail(collisions), now)

\* the values are bound one after the other, as the statements compute them
update(deltaTime, now) ==
    \E cam \in {updateCameraOffset(cameraOffset, targetCameraOffset)} :
    \E moved \in {SubmarineUpdate(submarine, keys, deltaTime)} :
    \E d1 \in {descend(gameState.depth, keys)} :
    \E rew \in {IF "s" \in keys
                THEN checkDepthRewards(gameState.oxygen, gameState.score,
                                       claimedRewards, upgrades, d1)
                ELSE [claimed |-> claimedRewards, oxygen |-> gameState.oxygen,
                      score |-> gameState.score, upgrades |-> upgrades]} :
    \E due \in {resourceUpdateDue(now, lastResourceUpdate)} :
    \E m3 \in {cull(moveMonsters(IF moved.worldOffsetY # 0
                                   THEN shiftWorld(monsters, moved.worldOffsetY)
                                   ELSE monsters, now, gameState.sonarActive), d1)} :
    \E o3 \in {cull(IF moved.worldOffsetY # 0 THEN shiftWorld(obstacles, moved.worldOffsetY)
                    ELSE obstacles, d1)} :
    \E b3 \in {cull(IF moved.worldOffsetY # 0 THEN shiftWorld(bubbles, moved.worldOffsetY)
                    ELSE bubbles, d1)} :
    \E subHB \in {getScreenHitbox(moved.sub)} :
    \E mc \in {checkMonsterCollisions(subHB, m3, collisionCooldown, now, d1, cam)} :
    \E h4 \in {applyDamage(gameState.health, Len(mc.collisions), monsterDamage(rew.upgrades))} :
    \E oc \in {checkObstacleCollisions(subHB, o3, mc.table, now, d1, cam)} :
    \E h5 \in {applyDamage(h4, Len(oc.collisions), obstacleDamage(rew.upgrades))} :
    \E bc \in {checkBubbleCollisions(subHB, b3, d1, cam)} :
    \E ox6 \in {collectBubbles(IF due THEN decayOxygen(rew.oxygen) ELSE rew.oxygen, Len(bc))} :
    \E m4 \in {removeCollided(m3, mc.collisions)} :
    \E o5 \in {removeCollided(o3, oc.collisions)} :
    \E b6 \in {removeCollided(b3, bc)} :
    \E reason \in {terminalReason(d1, ox6, h5)} :
    \* a spawn that the smallest draw does not fire is fired by no draw
    \E jitter \in (IF spawnFires(d1, lastSpawnDepth, 0) THEN SpawnJitters ELSE {0}) :
    \E md \in [1..(IF spawnFires(d1, lastSpawnDepth, jitter) THEN enemyCount(d1) ELSE 0)
               -> MonsterDraws] :
    \E sm \in {spawnMonsters(m4, nextMonsterId, lastSpawnDepth, d1, jitter, md)} :
    \E pd \in ProceduralDraws :
    \E sp \in {spawnProceduralElements(o5, b6, sm.nextId, d1, pd[1], pd[2])} :
        /\ cameraOffset' = cam
        /\ submarine' = moved.sub
        /\ gameState' = [gameState EXCEPT
               !.depth = d1, !.oxygen = ox6, !.health = h5, !.score = rew.score,
               !.energy = IF due THEN regenEnergy(@) ELSE @,
               !.sonarCooldown = IF due THEN decaySonarCooldown(@) ELSE @]
        /\ claimedRewards' = rew.claimed
        /\ upgrades' = rew.upgrades
        /\ lastResourceUpdate' = IF due THEN now ELSE lastResourceUpdate
        /\ collisionCooldown' = oc.table
        /\ monsters' = sm.monsters
        /\ lastSpawnDepth' = sm.lastSpawnDepth
        /\ obstacles' = sp.obstacles
        /\ bubbles' = sp.bubbles
        /\ nextMonsterId' = sp.nextId
        /\ IF reason # "" THEN endGame(reason)
           ELSE UNCHANGED <<gameOverTriggered, gameOverReason, endGameCalls>>
        /\ lastReport' = recordReports(recordReports(lastReport, mc.collisions, now),
                                       oc.collisions, now)
        /\ removedIds' = removedIds
               \cup ((idsOf(monsters) \cup idsOf(obstacles) \cup idsOf(bubbles))
                     \ (idsOf(m4) \cup idsOf(o5) \cup idsOf(b6)))
        /\ tick' = [ran |-> TRUE, suspended |-> FALSE, now |-> now,
                    worldOffsetY |-> moved.worldOffsetY,
                    depth |-> d1, cameraOffset |-> cam,
                    depthOffset |-> calculateDepthOffset(d1, cam),
                    subHitbox |-> subHB,
                    passMonsters |-> m3, passObstacles |-> o3, passBubbles |-> b3,
                    cooldownBefore |-> collisionCooldown,
                    monsterCollisions |-> [i \in 1..Len(mc.collisions) |-> mc.collisions[i].id],
                    obstacleCollisions |-> [i \in 1..Len(oc.collisions) |-> oc.collisions[i].id],
                    bubbleCollisions |-> [i \in 1..Len(bc) |-> bc[i].id],
                    oxygenBefore |-> gameState.oxygen,
                    oxygenAfterRewards |-> rew.oxygen,
                    healthBefore |-> gameState.health,
                    healthAfterMonsters |-> h4,
                    reason |-> reason,
                    decayed |-> due,
                    oxygenAfterDecay |-> IF due THEN decayOxygen(rew.oxygen) ELSE rew.oxygen,
                    scoreBefore |-> gameState.score,
                    subBefore |-> submarine,
                    culled |-> (idsOf(monsters) \cup idsOf(obstacles) \cup idsOf(bubbles))
                               \ (idsOf(m3) \cup idsOf(o3) \cup idsOf(b3)),
                    threw |-> updateHUDThrows(hudPresent),
                    keys |-> keys,
                    deltaTime |-> deltaTime,
                    monstersBefore |-> monsters,
                    obstaclesBefore |-> obstacles,
                    bubblesBefore |-> bubbles,
                    drawnObstacle |-> pd[1] # NoDraw,
                    drawnBubble |-> pd[2] # NoDraw,
                    cameraBefore |-> cameraOffset,
                    targetCameraOffset |-> targetCameraOffset]

\* CanvasRenderingContext2D.strokeRect under ctx.translate(0, dy): where on the
\* canvas the rectangle appears
translated(rect, dy) == [rect EXCEPT !.y = @ + dy]

\* Renderer.drawDebugHitboxes (lines 265-294): the rectangles handed to
\* strokeRect, in the coordinates of the drawing context
drawDebugHitboxes(sub, ms, os, bs, d, camOffset) ==
    LET depthOffset == renderDepthOffset(d, camOffset)
        drawWorldObjectHitbox(obj) ==
            LET baseHitbox == getHitbox(obj)
            IN  [id |-> obj.id,
                 rect |-> [x |-> baseHitbox.x, y |-> baseHitbox.y + depthOffset,
                           width |-> baseHitbox.width, height |-> baseHitbox.height]]
    IN  [craft |-> getScreenHitbox(sub),
         entities |-> {drawWorldObjectHitbox(obj) :
                          obj \in SeqToSet(ms) \cup SeqToSet(os) \cup SeqToSet(bs)}]

\* Renderer.render(gameState, submarine, monsters, obstacles, bubbles, ...,
\* cameraOffset, debugMode), lines 326-360: what it translates by and, in debug
\* mode, where on the canvas the debug rectangles appear; drawDebugHitboxes is
\* called between ctx.translate(0, depthOffset) and ctx.restore()
render(gs, sub, ms, os, bs, camOffset, dbg) ==
    LET depthOffset == renderDepthOffset(gs.depth, camOffset)
        boxes       == drawDebugHitboxes(sub, ms, os, bs, gs.depth, camOffset)
    IN  rendered' = [drawn |-> TRUE, depth |-> gs.depth, cameraOffset |-> camOffset,
                     depthOffset |-> depthOffset,
                     debug |-> dbg,
                     debugCraft |-> IF dbg THEN translated(boxes.craft, depthOffset)
                                    ELSE NoRect,
                     debugEntities |->
                         IF dbg
                         THEN {[id |-> b.id, rect |-> translated(b.rect, depthOffset)] :
                                  b \in boxes.entities}
                         ELSE {}]

\* Game.start, gameLoop(currentTime): one animation frame, gap ms after the
\* previous step (lines 585-606)
runFrame(gap) ==
    LET currentTime      == clock + gap
        deltaTime        == currentTime - lastFrameTime
        clampedDeltaTime == Min(deltaTime, 16)
    IN  /\ loopRunning
        /\ clock' = currentTime
        /\ lastFrameTime' = currentTime
        /\ IF updateSuspended(gameOverTriggered, menuOpen)
           THEN /\ UNCHANGED coreVars
                /\ UNCHANGED <<endGameCalls, lastReport, removedIds>>
                /\ tick' = SuspendedTick
           ELSE update(clampedDeltaTime, DateNow(currentTime))
        \* an error raised by update leaves the callback before render and
        \* before requestAnimationFrame(gameLoop)
        /\ IF ~updateSuspended(gameOverTriggered, menuOpen) /\ updateHUDThrows(hudPresent)
           THEN /\ UNCHANGED rendered
                /\ loopRunning' = FALSE
           ELSE /\ render(gameState', submarine', monsters', obstacles', bubbles',
                       cameraOffset', debugMode)
                /\ loopRunning' = TRUE
        /\ UNCHANGED <<debugMode, menuOpen, keys, targetCameraOffset, sonarTimers, run,
                       hudPresent, listeners, destroyed>>

\* one of the frames counted against MaxSteps
gameLoop(gap) ==
    /\ steps < MaxSteps
    /\ steps' = steps + 1
    /\ runFrame(gap)

Frame ==
    \E gap \in FrameGaps \cup (IF sonarTimers # <<>> THEN HiddenGaps ELSE {}) : gameLoop(gap)

(***************************************************************************)
(* Event handlers and timer callbacks, run between frames.                 *)
(***************************************************************************)
\* the guard of Game.activateSonar (line 110)
\* InputHandler.setupEventListeners (lines 19-23): three arrow functions, each
\* a function object of its own (fn), registered on window
setupEventListeners ==
    {[type |-> "keydown", fn |-> 1], [type |-> "keyup", fn |-> 2],
     [type |-> "wheel", fn |-> 3]}

\* the function object made by evaluating a function expression: a new one,
\* equal to no object made before
newFunction(ls, k) == k + (IF ls = {} THEN 0 ELSE CHOOSE n \in {l.fn : l \in ls} :
                                                    \A l \in ls : l.fn <= n)

\* EventTarget.removeEventListener(type, fn): removes the listener registered
\* with that very function object, if there is one
removeEventListener(ls, type, fn) == ls \ {[type |-> type, fn |-> fn]}

\* the browser delivers an event of this type to the handlers
attached(type) == \E l \in listeners : l.type = type

\* a sonar that fires during its cooldown
sonarReadyInCooldown(gs) == gs.energy >= 2000 /\ ~gs.sonarActive

sonarReady(gs) == gs.energy >= 2000 /\ gs.sonarCooldown <= 0 /\ ~gs.sonarActive

sonarCost(upg) == IF upg.advancedSonar THEN 1000 ELSE 2000

\* Game.activateSonar: on success the setTimeout(..., 3000) is recorded
activateSonar ==
    IF sonarReady(gameState)
    THEN /\ gameState' = [gameState EXCEPT !.energy = Max(0, @ - sonarCost(upgrades)),
                                           !.sonarActive = TRUE,
                                           !.sonarCooldown = 5000]
         /\ sonarTimers' = Append(sonarTimers, clock + 3000)
    ELSE UNCHANGED <<gameState, sonarTimers>>

\* the callback of the setTimeout of activateSonar (line 118); timers run in
\* the order of their deadlines, at or after the deadline
SonarTimeout ==
    /\ steps < MaxSteps
    /\ sonarTimers # <<>>
    /\ Head(sonarTimers) <= clock
    /\ steps' = steps + 1
    /\ sonarTimers' = Tail(sonarTimers)
    /\ gameState' = [gameState EXCEPT !.sonarActive = FALSE]
    /\ UNCHANGED <<monsters, obstacles, bubbles, upgrades, nextMonsterId, lastSpawnDepth,
                   lastResourceUpdate, gameOverTriggered, gameOverReason, debugMode,
                   menuOpen, claimedRewards, lastFrameTime, submarine, keys, cameraOffset,
                   targetCameraOffset, collisionCooldown, clock, endGameCalls, tick, rendered, run, lastReport,
                   hudPresent, listeners, destroyed, loopRunning, removedIds>>

\* Game.toggleMenu / openMenu / closeMenu
toggleMenu(menu, menuName) == IF menu = menuName THEN "none" ELSE menuName

\* InputHandler.handleKeyDown, all but the change of the key set
keyDownActions(key) ==
    /\ IF key = " " THEN activateSonar ELSE UNCHANGED <<gameState, sonarTimers>>
    /\ targetCameraOffset' =
           IF key = "arrowup" THEN Max(-10000, targetCameraOffset - 3000)
           ELSE IF key = "arrowdown" THEN Min(10000, targetCameraOffset + 3000)
           ELSE targetCameraOffset
    /\ menuOpen' =
           IF key = "m" THEN toggleMenu(menuOpen, "missions")
           ELSE IF key = "u" THEN toggleMenu(menuOpen, "upgrades")
           ELSE IF key = "escape" THEN "none"
           ELSE menuOpen
    /\ debugMode' = IF key = "b" THEN ~debugMode ELSE debugMode
    /\ UNCHANGED <<monsters, obstacles, bubbles, upgrades, nextMonsterId, lastSpawnDepth,
                   lastResourceUpdate, gameOverTriggered, gameOverReason, claimedRewards,
                   lastFrameTime, submarine, cameraOffset, collisionCooldown, clock,
                   endGameCalls, tick, rendered, run, lastReport,
                   hudPresent, listeners, destroyed, loopRunning, removedIds>>

\* InputHandler.handleKeyDown
handleKeyDown(key) ==
    /\ steps < MaxSteps
    /\ steps' = steps + 1
    /\ keys' = keys \cup {key}
    /\ keyDownActions(key)

\* a movement key goes down and stays down (the repeated keydown of a held
\* key changes nothing: a stuttering step)
KeyDown == attached("keydown") /\ \E key \in MoveKeys \ keys : handleKeyDown(key)

\* an action key is tapped: handleKeyDown, then handleKeyUp of the same key
KeyTap ==
    \E key \in ActionKeys :
        /\ attached("keydown") /\ attached("keyup")
        /\ steps < MaxSteps
        /\ steps' = steps + 1
        /\ keys' = (keys \cup {key}) \ {key}
        /\ keyDownActions(key)
        \* a tap that changes nothing is a stuttering step
        /\ <<gameState, sonarTimers, targetCameraOffset, menuOpen, debugMode>>'
             # <<gameState, sonarTimers, targetCameraOffset, menuOpen, debugMode>>

\* InputHandler.handleKeyUp
handleKeyUp(key) ==
    /\ steps < MaxSteps
    /\ steps' = steps + 1
    /\ keys' = keys \ {key}
    /\ UNCHANGED <<gameState, monsters, obstacles, bubbles, upgrades, nextMonsterId,
                   lastSpawnDepth, lastResourceUpdate, gameOverTriggered, gameOverReason,
                   debugMode, menuOpen, claimedRewards, lastFrameTime, submarine,
                   cameraOffset, targetCameraOffset, collisionCooldown, clock,
                   sonarTimers, endGameCalls, tick, rendered, run, lastReport,
                   hudPresent, listeners, destroyed, loopRunning, removedIds>>

KeyUp == attached("keyup") /\ \E key \in keys : handleKeyUp(key)

\* InputHandler.handleWheel: deltaY > 0 or not
handleWheel(down) ==
    /\ steps < MaxSteps
    /\ steps' = steps + 1
    /\ targetCameraOffset' =
           Max(-10000, Min(10000, targetCameraOffset + (IF down THEN 3000 ELSE -3000)))
    /\ UNCHANGED <<gameState, monsters, obstacles, bubbles, upgrades, nextMonsterId,
                   lastSpawnDepth, lastResourceUpdate, gameOverTriggered, gameOverReason,
                   debugMode, menuOpen, claimedRewards, lastFrameTime, submarine, keys,
                   cameraOffset, collisionCooldown, clock, sonarTimers, endGameCalls,
                   tick, rendered, run, lastReport,
                   hudPresent, listeners, destroyed, loopRunning, removedIds>>

\* a turn of the wheel at the end of the range is a stuttering step
Wheel ==
    /\ attached("wheel")
    /\ \E down \in BOOLEAN : handleWheel(down) /\ targetCameraOffset' # targetCameraOffset

\* the click handlers of the close buttons and the overlay (Game.closeMenu),
\* which can be clicked while a menu is shown
closeMenu ==
    /\ menuOpen # "none"
    /\ steps < MaxSteps
    /\ steps' = steps + 1
    /\ menuOpen' = "none"
    /\ UNCHANGED <<gameState, monsters, obstacles, bubbles, upgrades, nextMonsterId,
                   lastSpawnDepth, lastResourceUpdate, gameOverTriggered, gameOverReason,
                   debugMode, claimedRewards, lastFrameTime, submarine, keys,
                   cameraOffset, targetCameraOffset, collisionCooldown, clock,
                   sonarTimers, endGameCalls, tick, rendered, run, lastReport,
                   hudPresent, listeners, destroyed, loopRunning, removedIds>>

\* Game.restart (the click handler of the restart button)
restart ==
    /\ steps < MaxSteps
    /\ steps' = steps + 1
    /\ gameState' = NewGameState
    /\ monsters' = <<>>
    /\ obstacles' = <<>>
    /\ bubbles' = <<>>
    /\ upgrades' = NoUpgrades
    /\ nextMonsterId' = 1
    /\ lastSpawnDepth' = 0
    /\ lastResourceUpdate' = 0
    /\ gameOverTriggered' = FALSE
    /\ gameOverReason' = ""
    /\ debugMode' = FALSE
    /\ menuOpen' = "none"
    /\ claimedRewards' = {}
    /\ submarine' = SubmarineReset(submarine)
    /\ keys' = {}
    /\ cameraOffset' = 0
    /\ targetCameraOffset' = 0
    /\ collisionCooldown' = EmptyMap
    /\ endGameCalls' = 0
    /\ tick' = NoTick
    /\ run' = run + 1
    /\ lastReport' = EmptyMap
    /\ removedIds' = {}
    /\ UNCHANGED <<lastFrameTime, clock, sonarTimers, rendered, hudPresent, listeners, destroyed, loopRunning>>

(***************************************************************************)
(* Initial states: the state after construction, and states in the middle  *)
(* of a run.  A state in mid-run is described by the depth reached, the    *)
(* resources left, the keys held and the entities alive; everything the    *)
(* code derives from the depth (claimed rewards, score, upgrades) is set   *)
(* to what descending to that depth leaves.                                *)
(***************************************************************************)
\* an entity at screen position (x, top) when the depth is d and the camera offset 0
AtScreen(id, type, x, top, d, vx) ==
    GameObject(id, type, x, top + d * 100 - 30000, typeWidth(type), typeHeight(type), vx, 0)

\* entities that overlap the hitbox of the craft at rest (x 372.5-427.5, y 286.5-313.5)
SquidOnCraft(id, d) == AtScreen(id, "squid", 37000, 27000, d, -80)

SharkOnCraft(id, d) == AtScreen(id, "shark", 33000, 27000, d, 120)

ViperOnCraft(id, d) == AtScreen(id, "viper", 35000, 27500, d, 150)

RockOnCraft(id, d) ==
    GameObject(id, "rock", 36000, 27000 + d * 100 - 30000, 10000, 10000, 0, 0)

BubbleOnCraft(id, d) ==
    GameObject(id, "bubble", 39000, 29000 + d * 100 - 30000, 4000, 4000, 0, 0)

\* a rock left behind by the descent, 1198 above the depth d
RockAbove(id, d) ==
    GameObject(id, "rock", 60000, (d - 1198) * 100, 9000, 9000, 0, 0)

\* entities below the craft, as spawned some ticks ago
RockBelow(id, d, x) ==
    GameObject(id, "rock", x, d * 100 + 30000, 9000, 9000, 0, 0)

BubbleBelow(id, d, x) ==
    GameObject(id, "bubble", x, d * 100 + 35000, 4000, 4000, 0, 0)

Scenario(fresh, d, oxygen, energy, health, held, ms, os, bs, lastSpawn) ==
    [fresh |-> fresh, depth |-> d, oxygen |-> oxygen, energy |-> energy,
     health |-> health, keys |-> held, monsters |-> ms, obstacles |-> os,
     bubbles |-> bs, lastSpawnDepth |-> lastSpawn]

Scenarios ==
    { \* new Game(canvas)
      Scenario(TRUE, 0, 10000, 10000, 10000, {}, <<>>, <<>>, <<>>, 0),
      \* one descending tick before each depth reward
      Scenario(FALSE, 1995, 9500, 10000, 10000, {"s"}, <<>>, <<>>, <<>>, 1600),
      Scenario(FALSE, 3995, 4000, 9000, 10000, {"s"}, <<>>, <<RockAbove(17, 3995)>>, <<>>, 3600),
      Scenario(FALSE, 5995, 6500, 10000, 6000, {"s"}, <<>>, <<>>, <<>>, 5600),
      \* one descending tick before the bottom: alone, and with the oxygen and
      \* the hull about to give out in the same tick
      Scenario(FALSE, 10995, 8000, 10000, 10000, {"s"}, <<>>, <<>>, <<>>, 10600),
      Scenario(FALSE, 10995, 5, 10000, 700, {"s"},
               <<SquidOnCraft(41, 10995)>>, <<>>, <<>>, 10600),
      \* oxygen and hull about to give out away from the bottom
      Scenario(FALSE, 1000, 5, 3000, 1000, {}, <<SquidOnCraft(7, 1000)>>, <<>>, <<>>, 800),
      Scenario(FALSE, 1000, 5, 1000, 10000, {"d"}, <<>>, <<>>, <<>>, 800),
      \* the last of the oxygen with a bubble within reach
      Scenario(FALSE, 1000, 5, 10000, 10000, {}, <<>>, <<>>, <<BubbleOnCraft(2, 1000)>>, 800),
      Scenario(FALSE, 1200, 9000, 10000, 2000, {"a"}, <<>>, <<RockOnCraft(9, 1200)>>, <<>>, 800),
      \* one, two and three creatures on the craft, with a rock and a bubble
      Scenario(FALSE, 1000, 9000, 10000, 10000, {"w"},
               <<SquidOnCraft(3, 1000)>>, <<>>, <<BubbleOnCraft(4, 1000)>>, 800),
      Scenario(FALSE, 2500, 7000, 10000, 10000, {},
               <<SquidOnCraft(5, 2500), SharkOnCraft(6, 2500)>>,
               <<RockOnCraft(8, 2500)>>, <<>>, 2400),
      Scenario(FALSE, 4400, 7000, 10000, 2500, {"s"},
               <<SquidOnCraft(11, 4400), SharkOnCraft(12, 4400), ViperOnCraft(13, 4400)>>,
               <<RockBelow(14, 4400, 60000)>>,
               <<BubbleOnCraft(15, 4400), BubbleBelow(16, 4400, 20000)>>, 4000),
      \* with the reinforced hull
      Scenario(FALSE, 7500, 7000, 10000, 1500, {},
               <<SquidOnCraft(21, 7500), SharkOnCraft(22, 7500)>>,
               <<RockOnCraft(23, 7500)>>, <<>>, 7200),
      \* one descending tick before the spawn distance 700
      Scenario(FALSE, 4695, 7000, 10000, 10000, {"s"}, <<>>, <<>>, <<>>, 4000) }

\* the largest id of a scenario's entities
MaxId(sc) ==
    LET ids == {o.id : o \in SeqToSet(sc.monsters) \cup SeqToSet(sc.obstacles)
                               \cup SeqToSet(sc.bubbles)}
    IN  IF ids = {} THEN 0 ELSE CHOOSE i \in ids : \A j \in ids : j <= i

\* what a descent to depth d has granted
ReachedRewards(d) == {t \in {2000, 4000, 6000} : d >= t}

ReachedPoints(d) ==
    (IF d >= 2000 THEN 500 ELSE 0) + (IF d >= 4000 THEN 1000 ELSE 0)
    + (IF d >= 6000 THEN 2000 ELSE 0)

ReachedUpgrades(d) ==
    [oxygenTank |-> d >= 3000, advancedSonar |-> d >= 5000,
     reinforcedHull |-> d >= 7000, turboThrust |-> d >= 9000]

InitFrom(sc) ==
    /\ gameState = [oxygen |-> sc.oxygen, energy |-> sc.energy, health |-> sc.health,
                    depth |-> sc.depth, score |-> ReachedPoints(sc.depth),
                    \* a scenario may name a sonar pulse under way
                    sonarActive |-> "sonarDeadline" \in DOMAIN sc,
                    sonarCooldown |-> IF "sonarCooldown" \in DOMAIN sc
                                      THEN sc.sonarCooldown ELSE 0]
    /\ monsters = sc.monsters
    /\ obstacles = sc.obstacles
    /\ bubbles = sc.bubbles
    /\ upgrades = ReachedUpgrades(sc.depth)
    /\ nextMonsterId = MaxId(sc) + 1
    /\ lastSpawnDepth = sc.lastSpawnDepth
    /\ clock = IF sc.fresh THEN 0 ELSE 60000
    \* the last resource update was 20 ms ago
    /\ lastResourceUpdate = IF sc.fresh THEN 0 ELSE DateNow(60000) - 20
    /\ gameOverTriggered = FALSE
    /\ gameOverReason = ""
    /\ debugMode = FALSE
    /\ menuOpen = "none"
    /\ claimedRewards = ReachedRewards(sc.depth)
    \* the constructor stores Date.now(); every frame stores its own timestamp
    /\ lastFrameTime = IF sc.fresh THEN DateNow(0) ELSE 60000
    /\ submarine = NewSubmarine
    /\ keys = sc.keys
    \* a scenario may name the camera offsets the wheel has left
    /\ cameraOffset = IF "cameraOffset" \in DOMAIN sc THEN sc.cameraOffset ELSE 0
    /\ targetCameraOffset =
           IF "targetCameraOffset" \in DOMAIN sc THEN sc.targetCameraOffset ELSE 0
    /\ collisionCooldown = EmptyMap
    /\ sonarTimers = IF "sonarDeadline" \in DOMAIN sc THEN <<sc.sonarDeadline>> ELSE <<>>
    /\ endGameCalls = 0
    /\ tick = NoTick
    /\ rendered = NoRender
    /\ run = 0
    /\ lastReport = EmptyMap
    /\ steps = 0
    /\ loopRunning = TRUE
    /\ removedIds = {}
    /\ listeners = setupEventListeners
    /\ destroyed = FALSE

\* the page as shipped holds every HUD element
Init == hudPresent = TRUE /\ \E sc \in Scenarios : InitFrom(sc)

Next ==
    \/ Frame
    \/ KeyDown
    \/ KeyTap
    \/ KeyUp
    \/ Wheel
    \/ SonarTimeout
    \/ closeMenu
    \/ restart

Spec == Init /\ [][Next]_vars

(***************************************************************************)
(* Properties.                                                             *)
(***************************************************************************)
\* an executed update is the last thing that touched the game
Ticked == tick.ran

\* C1: in every reachable state oxygen, energy and health are within
\* [0, 100] and depth is within [0, 11000].
ResourcesInRange ==
    /\ gameState.oxygen >= 0 /\ gameState.oxygen <= 10000
    /\ gameState.energy >= 0 /\ gameState.energy <= 10000
    /\ gameState.health >= 0 /\ gameState.health <= 10000
    /\ gameState.depth >= 0 /\ gameState.depth <= 11000

\* the clamps acted: the hull took more damage than it had left, the oxygen
\* ran out, and the depth reached the bottom
ResourcesClamped ==
    /\ Ticked
    /\ tick.monsterCollisions # <<>>
    /\ tick.healthBefore < 1000
    /\ gameState.health = 0
    /\ gameState.oxygen = 0
    /\ gameState.depth = 11000

\* C2: within a run endGame is invoked exactly once, by the first tick whose
\* terminal check finds a terminal condition, and never again before restart.
EndGameOncePerRun ==
    /\ endGameCalls <= 1
    /\ gameOverTriggered <=> endGameCalls = 1
    /\ Ticked /\ (gameState.depth >= 11000 \/ gameState.oxygen <= 0 \/ gameState.health <= 0)
         => endGameCalls = 1

\* a frame came after the game was over, and endGame was not called again
FrameAfterGameOver ==
    /\ gameOverTriggered
    /\ tick = SuspendedTick
    /\ endGameCalls = 1

\* C3: an update called while the game is over or a menu is open changes
\* nothing (the frames are the steps that advance the clock).
SuspendedUpdateChangesNothing ==
    [][ (clock' # clock /\ (gameOverTriggered \/ menuOpen # "none"))
          => UNCHANGED <<gameState, monsters, obstacles, bubbles, submarine, cameraOffset,
                         collisionCooldown, nextMonsterId, lastSpawnDepth,
                         lastResourceUpdate, claimedRewards, upgrades,
                         gameOverTriggered, gameOverReason>> ]_vars

\* a frame passed with a menu open, the descend key held and the camera
\* away from its target
FrameWithMenuOpen ==
    /\ menuOpen # "none"
    /\ tick = SuspendedTick
    /\ "s" \in keys
    /\ targetCameraOffset # cameraOffset

\* C4: the translation of the collision engine and that of the renderer are
\* both -depth + 300 + cameraOffset, and the frame's render uses the depth and
\* the camera offset its collision passes used.
RenderMatchesCollision ==
    /\ calculateDepthOffset(gameState.depth, cameraOffset)
         = 30000 + cameraOffset - 100 * gameState.depth
    /\ renderDepthOffset(gameState.depth, cameraOffset)
         = 30000 + cameraOffset - 100 * gameState.depth
    /\ Ticked => /\ rendered.drawn
                 /\ rendered.depth = tick.depth
                 /\ rendered.cameraOffset = tick.cameraOffset
                 /\ rendered.depthOffset = tick.depthOffset

\* a frame collided and rendered at a depth and a camera offset other than 0
RenderedWithCameraOffset ==
    /\ Ticked
    /\ rendered.drawn
    /\ tick.cameraOffset # 0
    /\ tick.depth > 0

(***************************************************************************)
(* The collision engine called on entities that stay where they are: the   *)
(* caller keeps every reported entity in its list, and calls               *)
(* checkMonsterCollisions and checkObstacleCollisions again and again, a   *)
(* few milliseconds apart, with the craft, the depth and the camera at     *)
(* rest.                                                                   *)
(***************************************************************************)
\* milliseconds between two calls
CheckGaps == {40, 60, 99, 101}

\* the ids of the objects of a list that overlap the craft's hitbox
overlappingIds(list, subScreenHitbox, depthOffset) ==
    {o.id : o \in {x \in SeqToSet(list) :
                      checkAABB(subScreenHitbox, getWorldObjectScreenHitbox(x, depthOffset))}}

\* one call of a pass of the collision engine on list, gap ms after the previous
\* step; the bubble pass is handed no table and returns none
checkCall(kind, list, gap) ==
    \E now \in {DateNow(clock + gap)} :
    \E subHB \in {getScreenHitbox(submarine)} :
    \E res \in {IF kind = "monsters"
                THEN checkMonsterCollisions(subHB, list, collisionCooldown, now,
                                            gameState.depth, cameraOffset)
                ELSE IF kind = "obstacles"
                THEN checkObstacleCollisions(subHB, list, collisionCooldown, now,
                                             gameState.depth, cameraOffset)
                ELSE bubblePass(subHB, list, collisionCooldown, now,
                                gameState.depth, cameraOffset)} :
        /\ steps < MaxSteps
        /\ steps' = steps + 1
        /\ clock' = clock + gap
        /\ collisionCooldown' = res.table
        /\ lastReport' = IF kind = "bubbles" THEN lastReport
                          ELSE recordReports(lastReport, res.collisions, now)
        /\ tick' = [ran |-> FALSE, suspended |-> FALSE, now |-> now, pass |-> kind,
                    overlapping |-> overlappingIds(list, subHB,
                                        calculateDepthOffset(gameState.depth, cameraOffset)),
                    reported |-> {o.id : o \in SeqToSet(res.collisions)},
                    checked |-> idsOf(list),
                    cooldownBefore |-> collisionCooldown,
                    depthOffset |-> calculateDepthOffset(gameState.depth, cameraOffset)]
        /\ UNCHANGED <<gameState, monsters, obstacles, bubbles, upgrades, nextMonsterId,
                       lastSpawnDepth, lastResourceUpdate, gameOverTriggered,
                       gameOverReason, debugMode, menuOpen, claimedRewards, lastFrameTime,
                       submarine, keys, cameraOffset, targetCameraOffset, sonarTimers,
                       endGameCalls, rendered, run, hudPresent, listeners, destroyed, loopRunning, removedIds>>

CheckCreatures == \E gap \in CheckGaps : checkCall("monsters", monsters, gap)

CheckObstacles == \E gap \in CheckGaps : checkCall("obstacles", obstacles, gap)

CheckBubbles == \E gap \in CheckGaps : checkCall("bubbles", bubbles, gap)

NextCooldown ==
    \/ CheckCreatures
    \/ CheckObstacles

SpecCooldown == Init /\ [][NextCooldown]_vars

\* C5: an entity reported by a cooldown-gated pass at time t is not reported
\* again by a call at a time less than 100 ms after t, although it still
\* overlaps the craft.
NoReportWithinCooldown ==
    [][ \A id \in DOMAIN lastReport :
            (id \in DOMAIN lastReport' /\ lastReport'[id].count > lastReport[id].count)
                => lastReport'[id].time - lastReport[id].time >= 100 ]_vars

\* a call 99 ms after the report found the entity on the craft and did not
\* report it
OverlapHeldBack ==
    /\ ~Ticked
    /\ "pass" \in DOMAIN tick
    /\ \E id \in tick.overlapping \ tick.reported :
           /\ id \in DOMAIN lastReport
           /\ lastReport[id].count = 1
           /\ tick.now - lastReport[id].time = 99

\* the ids of the live entities
liveIds == {o.id : o \in SeqToSet(monsters) \cup SeqToSet(obstacles) \cup SeqToSet(bubbles)}

\* C6: the live entities have pairwise distinct ids, and within a run every
\* newly assigned id is greater than every id assigned before it.
IdsUniqueAndIncreasing ==
    /\ [](/\ Cardinality(liveIds) = Len(monsters) + Len(obstacles) + Len(bubbles)
          /\ \A i \in liveIds : i < nextMonsterId)
    /\ [][ run' = run =>
             /\ nextMonsterId' >= nextMonsterId
             /\ \A i \in liveIds' \ liveIds : i >= nextMonsterId /\ i < nextMonsterId' ]_vars

\* one tick spawned three creatures, a rock and a bubble next to older entities
FiveSpawnedInOneTick ==
    /\ Ticked
    /\ Len(monsters) >= 3
    /\ obstacles # <<>>
    /\ bubbles # <<>>
    /\ Cardinality({i \in liveIds : i >= nextMonsterId - 5}) = 5

\* C7: after every Submarine.update of the game loop, the first frame
\* included, screenX is within [0, 700] and screenY within [190, 350].
CraftOnScreen ==
    /\ submarine.screenX >= 0 /\ submarine.screenX <= 70000
    /\ submarine.screenY >= 19000 /\ submarine.screenY <= 35000

\* the terminal condition of the highest priority that holds
priorityReason ==
    IF gameState.depth >= 11000 THEN "victory"
    ELSE IF gameState.oxygen <= 0 THEN "oxygen"
    ELSE IF gameState.health <= 0 THEN "health"
    ELSE "none"

\* C8: the run ends with the reason of the highest-priority terminal condition
\* that holds (bottom reached, then oxygen, then hull), and the reason stays
\* until restart.
TerminalPriority ==
    /\ [](gameOverTriggered =>
            /\ priorityReason = "victory" => gameOverReason = VictoryReason
            /\ priorityReason = "oxygen" => gameOverReason = OxygenReason
            /\ priorityReason = "health" => gameOverReason = HealthReason
            /\ priorityReason # "none")
    /\ [][ (gameOverTriggered /\ run' = run)
             => (gameOverTriggered' /\ gameOverReason' = gameOverReason) ]_vars

\* the three terminal conditions held at the same terminal check
AllTerminalAtOnce ==
    /\ Ticked
    /\ tick.reason # ""
    /\ gameOverTriggered
    /\ gameState.depth >= 11000
    /\ gameState.oxygen <= 0
    /\ gameState.health <= 0

\* the creatures of the monster pass of the last tick that overlapped the
\* craft's hitbox and were not in cooldown
overlappingCreatures ==
    {m \in SeqToSet(tick.passMonsters) :
        /\ LET hb == getWorldObjectScreenHitbox(m, tick.depthOffset)
           IN  /\ hb.x < tick.subHitbox.x + tick.subHitbox.width
               /\ tick.subHitbox.x < hb.x + hb.width
               /\ hb.y < tick.subHitbox.y + tick.subHitbox.height
               /\ tick.subHitbox.y < hb.y + hb.height
        /\ ~(m.id \in DOMAIN tick.cooldownBefore
             /\ tick.now - tick.cooldownBefore[m.id] < 100)}

\* C9: the k creatures that overlap the craft in a tick and are not in
\* cooldown are all reported, all removed from the list, and cost k times
\* the damage of one creature (10, or 7 with the reinforced hull), down to 0.
AllOverlappingCreaturesHit ==
    Ticked =>
        /\ SeqToSet(tick.monsterCollisions) = {m.id : m \in overlappingCreatures}
        /\ Len(tick.monsterCollisions) = Cardinality(overlappingCreatures)
        /\ \A m \in SeqToSet(monsters) : m.id \notin SeqToSet(tick.monsterCollisions)
        /\ tick.healthAfterMonsters
             = Max(0, tick.healthBefore
                      - Cardinality(overlappingCreatures)
                        * (IF upgrades.reinforcedHull THEN 700 ELSE 1000))

\* two creatures hit the reinforced hull in one tick
TwoCreaturesOnReinforcedHull ==
    /\ Ticked
    /\ Cardinality(overlappingCreatures) = 2
    /\ upgrades.reinforcedHull
    /\ tick.healthAfterMonsters = tick.healthBefore - 1400

\* the thresholds and what each grants
rewardOxygen(t) == IF t = 2000 THEN 2000 ELSE IF t = 4000 THEN 3000 ELSE 4000

rewardPoints(t) == IF t = 2000 THEN 500 ELSE IF t = 4000 THEN 1000 ELSE 2000

\* checkDepthRewards called at depth d in the current state
rewardsAt(d) ==
    checkDepthRewards(gameState.oxygen, gameState.score, claimedRewards, upgrades, d)

\* C10: each depth reward (2000: +20 oxygen, +500 points; 4000: +30, +1000;
\* 6000: +40, +2000) is granted once, when the depth first reaches its
\* threshold, also when one call crosses several thresholds; the score is the
\* sum of the points of the thresholds reached.
RewardsGrantedOnce ==
    /\ [](/\ claimedRewards = {t \in {2000, 4000, 6000} : gameState.depth >= t}
          /\ gameState.score = SeqSum([i \in 1..3 |->
                                  IF gameState.depth >= Rewards[i].depth
                                  THEN rewardPoints(Rewards[i].depth) ELSE 0])
          /\ \A d \in {gameState.depth, 4000, 11000} :
                d >= gameState.depth =>
                  \E new \in {{t \in {2000, 4000, 6000} : d >= t} \ claimedRewards} :
                  \E r \in {rewardsAt(d)} :
                      /\ r.claimed = claimedRewards \cup new
                      /\ r.score = gameState.score
                           + SeqSum([i \in 1..3 |-> IF Rewards[i].depth \in new
                                                    THEN rewardPoints(Rewards[i].depth) ELSE 0])
                      /\ r.oxygen = Min(10000, gameState.oxygen
                           + SeqSum([i \in 1..3 |-> IF Rewards[i].depth \in new
                                                    THEN rewardOxygen(Rewards[i].depth) ELSE 0]))
                      /\ checkDepthRewards(r.oxygen, r.score, r.claimed, upgrades, d).score
                           = r.score)
    /\ [][ (run' = run /\ claimedRewards' # claimedRewards) =>
             /\ Ticked'
             /\ claimedRewards' \ claimedRewards
                  = {t \in {2000, 4000, 6000} : gameState.depth < t /\ t <= gameState'.depth}
             /\ claimedRewards \subseteq claimedRewards'
             /\ tick'.oxygenAfterRewards
                  = Min(10000, gameState.oxygen
                        + SeqSum([i \in 1..3 |->
                               IF Rewards[i].depth \in claimedRewards' \ claimedRewards
                               THEN rewardOxygen(Rewards[i].depth) ELSE 0])) ]_vars

\* the tick that reached 2000 granted its reward, and the tick after it
\* granted nothing
RewardNotRepeated ==
    /\ Ticked
    /\ gameState.depth = 2005
    /\ "s" \in keys
    /\ gameState.score = 500
    /\ claimedRewards = {2000}
    /\ tick.oxygenAfterRewards = tick.oxygenBefore

(***************************************************************************)
(* C11: oxygen brought to 0 by the decay of a tick.                        *)
(***************************************************************************)
\* the last executed tick decayed the oxygen to 0 above the bottom
DecayedToZero ==
    /\ Ticked
    /\ tick.decayed
    /\ tick.oxygenAfterDecay = 0
    /\ tick.depth < 11000

\* C11 as stated: whenever the decay of a tick brings the oxygen to 0 above
\* the bottom, the run has ended with the oxygen reason by the terminal
\* check of the next executed tick at the latest, and the score is kept
OxygenOutEndsRunByNextTick ==
    [][(DecayedToZero /\ ~gameOverTriggered /\ tick'.ran /\ clock' # clock)
       => /\ gameOverTriggered'
          /\ gameOverReason' = OxygenReason
          /\ gameState'.score = gameState.score]_vars

\* C11 (amended): when the decay of a tick brings the oxygen to 0 above the
\* bottom and no bubble is collected in that tick, the terminal check of that
\* same tick ends the run with the oxygen reason, and the score keeps the
\* value it had before the tick
OxygenOutEndsRunUnlessBubble ==
    (DecayedToZero /\ tick.bubbleCollisions = <<>>)
    => /\ gameOverTriggered
       /\ gameOverReason = OxygenReason
       /\ tick.reason = OxygenReason
       /\ gameState.oxygen = 0
       /\ gameState.score = tick.scoreBefore

\* C11 witness: a tick decayed the oxygen to 0 with no bubble collected and
\* ended the run
OxygenRanOut ==
    /\ DecayedToZero
    /\ tick.oxygenBefore > 0
    /\ tick.bubbleCollisions = <<>>
    /\ gameOverReason = OxygenReason

(***************************************************************************)
(* C12: an entity at world y = 0 under the craft at rest (depth 0, camera  *)
(* offset 0).  The collision engine is called on a new game that holds one *)
(* entity of a kind, a size and an x position.                             *)
(***************************************************************************)
PlacementXs == {25000, 29500, 33000, 37000, 41000, 42700, 47000}

\* 80 + Math.random() * 40
RockSides == {8000, 10000, 12000}

CreatureTypes == {"squid", "angler", "viper", "shark"}

PlacedEntities ==
    {GameObject(1, t, x, 0, typeWidth(t), typeHeight(t), 0, 0) :
        t \in CreatureTypes, x \in PlacementXs}
    \cup {GameObject(1, "rock", x, 0, w, h, 0, 0) :
            x \in PlacementXs, w \in RockSides, h \in RockSides}
    \cup {GameObject(1, "bubble", x, 0, 4000, 4000, 0, 0) : x \in PlacementXs}

InitPlacement ==
    /\ hudPresent = TRUE
    /\ \E e \in PlacedEntities :
          InitFrom(Scenario(TRUE, 0, 10000, 10000, 10000, {},
                            IF e.type \in CreatureTypes THEN <<e>> ELSE <<>>,
                            IF e.type = "rock" THEN <<e>> ELSE <<>>,
                            IF e.type = "bubble" THEN <<e>> ELSE <<>>, 0))

NextPlacement ==
    \/ CheckCreatures
    \/ CheckObstacles
    \/ CheckBubbles

SpecPlacement == InitPlacement /\ [][NextPlacement]_vars

\* the entities of the list the last call checked
checkedEntities ==
    IF tick.pass = "monsters" THEN SeqToSet(monsters)
    ELSE IF tick.pass = "obstacles" THEN SeqToSet(obstacles)
    ELSE SeqToSet(bubbles)

\* the hitbox of entity o and the hitbox of the craft share an x
xRangesIntersect(o) ==
    /\ getHitbox(o).x < getScreenHitbox(submarine).x + getScreenHitbox(submarine).width
    /\ getHitbox(o).x + getHitbox(o).width > getScreenHitbox(submarine).x

\* a call of the engine at depth offset 300 found o on the craft, and returned
\* it unless its cooldown held it back
reportedOverlapping(o) ==
    /\ tick.depthOffset = 30000
    /\ o.id \in tick.overlapping
    /\ o.id \in DOMAIN tick.cooldownBefore \/ o.id \in tick.reported

\* the craft at its initial screenY 270, depth 0, camera offset 0
CraftAtRest ==
    /\ submarine.screenY = 27000
    /\ gameState.depth = 0
    /\ cameraOffset = 0

\* C12 as stated: with the craft at rest at depth 0, the depth offset is 300
\* and an entity of any kind and spawnable size at world y = 0 whose hitbox
\* shares an x with the craft's hitbox is reported as overlapping
EveryKindAtSurfaceOverlaps ==
    (CraftAtRest /\ "pass" \in DOMAIN tick)
    => \A o \in checkedEntities :
          (o.y = 0 /\ xRangesIntersect(o)) => reportedOverlapping(o)

\* C12 (amended): the same for a squid, a viper, a rock and a bubble
SquidViperRockBubbleAtSurfaceOverlap ==
    (CraftAtRest /\ "pass" \in DOMAIN tick)
    => \A o \in checkedEntities :
          (o.y = 0 /\ o.type \in {"squid", "viper", "rock", "bubble"} /\ xRangesIntersect(o))
          => reportedOverlapping(o)

\* C12 witness: the largest rock, sharing an x with the craft, was returned
RockAtSurfaceReported ==
    /\ CraftAtRest
    /\ "pass" \in DOMAIN tick
    /\ \E o \in checkedEntities :
          /\ o.type = "rock" /\ o.height = 12000 /\ o.y = 0
          /\ xRangesIntersect(o)
          /\ o.id \in tick.reported

(***************************************************************************)
(* C13: culling.                                                           *)
(***************************************************************************)
\* the off-screen predicate, on the stored position of an entity
offScreen(o) ==
    \/ o.x < -20000
    \/ o.x > 100000
    \/ Abs(o.y - gameState.depth * 100) > 120000

\* C13: after an executed tick no live creature, obstacle or bubble satisfies
\* the off-screen predicate (x < -200, x > 1000, |y - depth| > 1200), and no
\* live entity carries the id of an entity removed earlier in the run
NoOffScreenEntityAfterTick ==
    Ticked =>
        /\ \A o \in SeqToSet(monsters) \cup SeqToSet(obstacles) \cup SeqToSet(bubbles) :
               ~offScreen(o)
        /\ removedIds \cap liveIds = {}

\* C13 witness: a tick found an entity off screen and removed it, and spawned
\* another
CulledInTick ==
    /\ Ticked
    /\ tick.culled # {}
    /\ tick.culled \subseteq removedIds
    /\ liveIds # {}

(***************************************************************************)
(* C14: restart.                                                           *)
(***************************************************************************)
\* C14: restart() leaves the core state of a freshly constructed game:
\* resources 100/100/100, depth 0, score 0, sonar inactive with cooldown 0,
\* empty entity lists, all upgrades locked, id counter 1, lastSpawnDepth 0, no
\* claimed reward, game-over flag and reason cleared, no menu open, the craft
\* at screenX 350 / screenY 270 with rotation 0, no held key, camera offsets 0
\* and an empty cooldown table
RestartGivesFreshGame ==
    [][run' # run =>
        /\ gameState' = [oxygen |-> 10000, energy |-> 10000, health |-> 10000,
                         depth |-> 0, score |-> 0, sonarActive |-> FALSE,
                         sonarCooldown |-> 0]
        /\ monsters' = <<>> /\ obstacles' = <<>> /\ bubbles' = <<>>
        /\ \A u \in DOMAIN upgrades' : ~upgrades'[u]
        /\ nextMonsterId' = 1
        /\ lastSpawnDepth' = 0
        /\ claimedRewards' = {}
        /\ ~gameOverTriggered' /\ gameOverReason' = ""
        /\ menuOpen' = "none"
        /\ submarine'.screenX = 35000 /\ submarine'.screenY = 27000
        /\ submarine'.rotation = 0
        /\ submarine' = NewSubmarine
        /\ keys' = {}
        /\ cameraOffset' = 0 /\ targetCameraOffset' = 0
        /\ DOMAIN collisionCooldown' = {}]_vars

\* C14 witness: restarted after a frame drew a run under way
RestartedFromRunUnderWay ==
    /\ run = 1
    /\ rendered.drawn
    /\ rendered.depth > 0
    /\ gameState.depth = 0
    /\ tick = NoTick

(***************************************************************************)
(* C15: who changes the game state.                                        *)
(***************************************************************************)
\* the step is an update that ran to its end
ExecutedTickStep == tick'.ran /\ clock' # clock

\* C15 as stated: the game state, the entity lists and the cooldown table
\* change only in a step that is an executing update tick (restart apart);
\* no key handler and no timer callback changes them, with a menu open or the
\* game over in particular
CoreStateChangesOnlyInTick ==
    [][(run' = run /\ ~ExecutedTickStep)
       => UNCHANGED <<gameState, monsters, obstacles, bubbles, collisionCooldown>>]_vars

(***************************************************************************)
(* The collision engine with its table: the three passes called on a       *)
(* state with entities on the craft and away from it, and                  *)
(* setCollisionCooldown called on any of them.                             *)
(***************************************************************************)
AnglerAside(id, d) == AtScreen(id, "angler", 10000, 27000, d, 60)

BubbleOnCraftRight(id, d) ==
    GameObject(id, "bubble", 40500, 28500 + d * 100 - 30000, 4000, 4000, 0, 0)

DetectorScenario ==
    Scenario(FALSE, 1500, 9000, 10000, 10000, {},
             <<SquidOnCraft(31, 1500), AnglerAside(32, 1500)>>,
             <<RockOnCraft(33, 1500), RockBelow(34, 1500, 20000)>>,
             <<BubbleOnCraft(35, 1500), BubbleOnCraftRight(36, 1500),
               BubbleBelow(37, 1500, 60000)>>, 1200)

InitDetector == hudPresent = TRUE /\ InitFrom(DetectorScenario)

\* CollisionDetector.setCollisionCooldown(o) called at the time of the clock
Stamp ==
    \E o \in SeqToSet(monsters) \cup SeqToSet(obstacles) \cup SeqToSet(bubbles) :
        /\ steps < MaxSteps
        /\ steps' = steps + 1
        /\ collisionCooldown' = setCollisionCooldown(collisionCooldown, o, DateNow(clock))
        /\ tick' = [ran |-> FALSE, suspended |-> FALSE, stamped |-> o.id]
        /\ UNCHANGED <<gameState, monsters, obstacles, bubbles, upgrades, nextMonsterId,
                       lastSpawnDepth, lastResourceUpdate, gameOverTriggered,
                       gameOverReason, debugMode, menuOpen, claimedRewards, lastFrameTime,
                       submarine, keys, cameraOffset, targetCameraOffset, sonarTimers,
                       clock, endGameCalls, rendered, run, lastReport, hudPresent, listeners, destroyed,
                       loopRunning, removedIds>>

NextDetector ==
    \/ CheckCreatures
    \/ CheckObstacles
    \/ CheckBubbles
    \/ Stamp

SpecDetector == InitDetector /\ [][NextDetector]_vars

\* the last step was a call of the pass named kind
Called(kind) == "pass" \in DOMAIN tick /\ tick.pass = kind

(***************************************************************************)
(* C16: the bubble pass and the cooldown table.                            *)
(***************************************************************************)
\* C16: every call of checkBubbleCollisions returns every bubble whose
\* screen hitbox overlaps the craft's, whatever the cooldown table holds, and
\* leaves the table as it was
BubblePassNotGated ==
    Called("bubbles") =>
        /\ tick.reported = tick.overlapping
        /\ collisionCooldown = tick.cooldownBefore

\* C16 witness: both bubbles on the craft were returned while the table held
\* a fresh stamp for one of them
StampedBubbleReported ==
    /\ Called("bubbles")
    /\ tick.reported = {35, 36}
    /\ \E id \in tick.reported :
          /\ id \in DOMAIN tick.cooldownBefore
          /\ tick.now - tick.cooldownBefore[id] < 100

(***************************************************************************)
(* C17: expired entries of the cooldown table.                             *)
(***************************************************************************)
\* C17 as stated, in the form a finite run refutes: an entry is deleted only
\* by a lookup of its id, made for the members of the creature and obstacle
\* lists, and an id never returns to a list; so every entry being removed
\* some time after its 100 ms requires that after no executed tick the table
\* holds an expired entry whose entity is in no list any more
NoStrandedExpiredEntry ==
    Ticked =>
        \A id \in DOMAIN collisionCooldown :
            tick.now - collisionCooldown[id] >= 100 => id \in liveIds

(***************************************************************************)
(* C18: a lookup at or after the expiry of an entry.                       *)
(***************************************************************************)
\* the ids the last call checked whose stamp was at least 100 ms old
expiredAtCall ==
    {id \in tick.checked \cap DOMAIN tick.cooldownBefore :
        tick.now - tick.cooldownBefore[id] >= 100}

\* C18: when a creature or an obstacle is checked at least 100 ms (exactly
\* 100 ms included) after its stamp, the stamp is dropped; if the entity
\* overlaps the craft in that check it is returned again and stamped with the
\* time of the check, and otherwise it has no entry left
ExpiryRearms ==
    (Called("monsters") \/ Called("obstacles")) =>
        \A id \in expiredAtCall :
            IF id \in tick.overlapping
            THEN /\ id \in tick.reported
                 /\ id \in DOMAIN collisionCooldown
                 /\ collisionCooldown[id] = tick.now
            ELSE /\ id \notin tick.reported
                 /\ id \notin DOMAIN collisionCooldown

\* C18 witness: a creature on the craft checked exactly 100 ms after its stamp
\* was returned and stamped again
RearmedAtExactly100 ==
    /\ Called("monsters")
    /\ \E id \in expiredAtCall :
          /\ tick.now - tick.cooldownBefore[id] = 100
          /\ id \in tick.reported
          /\ collisionCooldown[id] = tick.now

(***************************************************************************)
(* C19: the clamp of the delta time.                                       *)
(***************************************************************************)
\* C19 as stated: in every executed tick, the one of the first frame
\* included, the craft moves by at most 0.18 x 16 = 2.88 on each axis and the
\* world scrolls by at most 2.88
DisplacementWithinClamp ==
    Ticked =>
        /\ Abs(submarine.screenX - tick.subBefore.screenX) <= 288
        /\ Abs(submarine.screenY - tick.subBefore.screenY) <= 288
        /\ Abs(tick.worldOffsetY) <= 288

(***************************************************************************)
(* C20: the game on a page without the HUD elements.                       *)
(***************************************************************************)
InitHeadless == hudPresent = FALSE /\ \E sc \in Scenarios : InitFrom(sc)

SpecHeadless == InitHeadless /\ [][Next]_vars

\* C20 as stated: an update that is not suspended runs to its end without
\* raising an error when the HUD elements are absent
UpdateCompletesWithoutHUD == Ticked => ~tick.threw

(***************************************************************************)
(* C21: the score.                                                         *)
(***************************************************************************)
\* C21: no step of a run (tick, collision, sonar activation, game over)
\* lowers the score; only restart does, and it sets the score to 0
ScoreNeverDecreasesInRun ==
    [][/\ run' = run => gameState'.score >= gameState.score
       /\ gameState'.score < gameState.score => (run' # run /\ gameState'.score = 0)]_vars

\* C21 witness: a tick raised the score by a depth reward
ScoreRaisedByTick ==
    /\ Ticked
    /\ gameState.score > tick.scoreBefore
    /\ tick.scoreBefore > 0

(***************************************************************************)
(* C22: the camera offsets.  The game is started from states in which the  *)
(* wheel has been turned three times one way, the smoothed offset          *)
(* following.                                                              *)
(***************************************************************************)
WithCamera(sc, cam, target) ==
    [cameraOffset |-> cam, targetCameraOffset |-> target] @@ sc

CameraScenarios ==
    {WithCamera(Scenario(FALSE, 1500, 9000, 10000, 10000, held,
                         <<>>, <<RockBelow(51, 1500, 20000)>>, <<>>, 1200), c[1], c[2]) :
        held \in {{}, {"s"}},
        c \in {<<0, 9000>>, <<8100, 9000>>, <<0, -9000>>, <<-8100, -9000>>}}

InitCamera == hudPresent = TRUE /\ \E sc \in CameraScenarios : InitFrom(sc)

SpecCamera == InitCamera /\ [][Next]_vars

\* C22: after any wheel events, arrow keys, ticks and resets the target and
\* the smoothed camera offset are within [-100, 100], and an executed tick
\* moves the camera offset by 10% of its gap to the target
CameraOffsetsBounded ==
    /\ targetCameraOffset >= -10000 /\ targetCameraOffset <= 10000
    /\ cameraOffset >= -10000 /\ cameraOffset <= 10000
    /\ Ticked =>
          /\ tick.targetCameraOffset >= -10000 /\ tick.targetCameraOffset <= 10000
          /\ Abs(10 * (tick.cameraOffset - tick.cameraBefore)
                 - (tick.targetCameraOffset - tick.cameraBefore)) < 10

\* C22 witness: the wheel was turned at 90, the target stopped at 100 and a
\* tick moved the camera towards it
CameraFollowsClampedTarget ==
    /\ Ticked
    /\ tick.targetCameraOffset = 10000
    /\ tick.cameraOffset > tick.cameraBefore
    /\ cameraOffset = tick.cameraOffset

(***************************************************************************)
(* C23: GameObject.getHitbox, called on one entity of any type, known or   *)
(* not, at several positions and sizes.                                    *)
(***************************************************************************)
\* "undefined" stands for an entity constructed without a type
HitboxTypes ==
    {"shark", "squid", "angler", "viper", "rock", "bubble", "undefined", "submarine", "crab"}

HitboxEntities ==
    {GameObject(1, t, x, y, w, h, 0, 0) :
        t \in HitboxTypes, x \in {-5000, 37000}, y \in {0, 120000},
        w \in {4000, 8500, 15000}, h \in {4000, 6000, 10000}}

InitHitbox ==
    /\ hudPresent = TRUE
    /\ \E e \in HitboxEntities :
          InitFrom(Scenario(TRUE, 0, 10000, 10000, 10000, {}, <<e>>, <<>>, <<>>, 0))

\* monsters[1].getHitbox(): the rectangle returned is recorded; the method
\* assigns no field of the entity
CallGetHitbox ==
    /\ tick = NoTick
    /\ tick' = [ran |-> FALSE, suspended |-> FALSE, entityBefore |-> monsters[1],
                hitbox |-> getHitbox(monsters[1])]
    /\ UNCHANGED <<gameState, monsters, obstacles, bubbles, upgrades, nextMonsterId,
                   lastSpawnDepth, lastResourceUpdate, gameOverTriggered,
                   gameOverReason, debugMode, menuOpen, claimedRewards, lastFrameTime,
                   submarine, keys, cameraOffset, targetCameraOffset, collisionCooldown,
                   sonarTimers, clock, endGameCalls, rendered, run, lastReport, steps,
                   hudPresent, listeners, destroyed, loopRunning, removedIds>>

SpecHitbox == InitHitbox /\ [][CallGetHitbox]_vars

\* rectangle inner lies within rectangle outer
containedIn(inner, outer) ==
    /\ inner.x >= outer.x
    /\ inner.y >= outer.y
    /\ inner.x + inner.width <= outer.x + outer.width
    /\ inner.y + inner.height <= outer.y + outer.height

\* C23: getHitbox leaves the entity as it was, returns a rectangle within the
\* entity's bounding rectangle for every kind, and returns the bounding
\* rectangle itself when the type is missing or is none of shark, squid,
\* angler, viper, rock, bubble
HitboxWithinBoundingBox ==
    "hitbox" \in DOMAIN tick =>
        /\ monsters[1] = tick.entityBefore
        /\ containedIn(tick.hitbox, monsters[1])
        /\ monsters[1].type \notin {"shark", "squid", "angler", "viper", "rock", "bubble"}
           => tick.hitbox = [x |-> monsters[1].x, y |-> monsters[1].y,
                             width |-> monsters[1].width, height |-> monsters[1].height]

\* C23 witness: the hitbox of an entity without a type is its bounding
\* rectangle
UntypedEntityFullBox ==
    /\ "hitbox" \in DOMAIN tick
    /\ monsters[1].type = "undefined"
    /\ tick.hitbox.width = monsters[1].width
    /\ tick.hitbox.x = monsters[1].x

(***************************************************************************)
(* C24: CollisionDetector.checkAABB, called on two rectangles of a grid    *)
(* in which rectangles are apart, touch along an edge, touch at a corner,  *)
(* overlap in part and contain one another.                                *)
(***************************************************************************)
AABBRects ==
    {[x |-> x, y |-> y, width |-> w, height |-> h] :
        x \in {0, 1000, 2000}, y \in {0, 1000, 2000}, w \in {1000, 2000}, h \in {1000, 2000}}

InitAABB ==
    /\ hudPresent = TRUE
    /\ InitFrom(Scenario(TRUE, 0, 10000, 10000, 10000, {}, <<>>, <<>>, <<>>, 0))

\* checkAABB(a, b) and checkAABB(b, a); the detector has no field the call
\* touches
CallCheckAABB ==
    \E a \in AABBRects, b \in AABBRects :
        /\ tick = NoTick
        /\ tick' = [ran |-> FALSE, suspended |-> FALSE, a |-> a, b |-> b,
                    result |-> checkAABB(a, b), reverse |-> checkAABB(b, a)]
        /\ UNCHANGED <<gameState, monsters, obstacles, bubbles, upgrades, nextMonsterId,
                       lastSpawnDepth, lastResourceUpdate, gameOverTriggered,
                       gameOverReason, debugMode, menuOpen, claimedRewards, lastFrameTime,
                       submarine, keys, cameraOffset, targetCameraOffset,
                       collisionCooldown, sonarTimers, clock, endGameCalls, rendered, run,
                       lastReport, steps, hudPresent, listeners, destroyed, loopRunning, removedIds>>

SpecAABB == InitAABB /\ [][CallCheckAABB]_vars

\* the rectangles share a boundary coordinate on some axis
touching(a, b) ==
    \/ a.x + a.width = b.x
    \/ b.x + b.width = a.x
    \/ a.y + a.height = b.y
    \/ b.y + b.height = a.y

\* C24: checkAABB(a, b) is true exactly when a.x < b.x + b.width,
\* a.x + a.width > b.x, a.y < b.y + b.height and a.y + a.height > b.y; two
\* rectangles that only touch along an edge or at a corner do not overlap, and
\* the answer is the same with a and b exchanged
AABBStrictAndSymmetric ==
    "result" \in DOMAIN tick =>
        /\ tick.result <=> (/\ tick.a.x < tick.b.x + tick.b.width
                            /\ tick.a.x + tick.a.width > tick.b.x
                            /\ tick.a.y < tick.b.y + tick.b.height
                            /\ tick.a.y + tick.a.height > tick.b.y)
        /\ touching(tick.a, tick.b) => ~tick.result
        /\ tick.result = tick.reverse

\* C24 witness: two rectangles that touch at a corner were found apart
CornerTouchNoOverlap ==
    /\ "result" \in DOMAIN tick
    /\ tick.a.x + tick.a.width = tick.b.x
    /\ tick.a.y + tick.a.height = tick.b.y
    /\ ~tick.result
    /\ ~tick.reverse

(***************************************************************************)
(* C25: the world scroll delta of Submarine.update.                        *)
(***************************************************************************)
\* C25: the world scroll delta of a tick is 0 when neither the up key nor
\* the down key is held, +0.18 x deltaTime when only up is held,
\* -0.18 x deltaTime when only down is held and when both are held, whatever
\* the other keys and the position of the craft
ScrollDeltaFromVerticalKeys ==
    Ticked =>
        /\ ("w" \notin tick.keys /\ "s" \notin tick.keys) => tick.worldOffsetY = 0
        /\ ("w" \in tick.keys /\ "s" \notin tick.keys)
           => tick.worldOffsetY = 18 * tick.deltaTime
        /\ ("w" \notin tick.keys /\ "s" \in tick.keys)
           => tick.worldOffsetY = -(18 * tick.deltaTime)
        /\ ("w" \in tick.keys /\ "s" \in tick.keys)
           => tick.worldOffsetY = -(18 * tick.deltaTime)

\* C25 witness: a tick of 16 ms with up and down both held scrolled by -2.88
DownOverridesUp ==
    /\ Ticked
    /\ "w" \in tick.keys /\ "s" \in tick.keys
    /\ tick.deltaTime = 16
    /\ tick.worldOffsetY = -288

(***************************************************************************)
(* C26: the world scroll applied to the entities.                          *)
(***************************************************************************)
\* the entity of the list with the id of o, or o itself when there is none
sameId(list, o) ==
    IF \E p \in SeqToSet(list) : p.id = o.id
    THEN CHOOSE p \in SeqToSet(list) : p.id = o.id
    ELSE o

\* every entity of before is in pass, moved down by delta at the same x, or
\* was culled at the position the scroll gave it
scrolledBy(before, pass, delta) ==
    \A o \in SeqToSet(before) :
        IF o.id \in tick.culled
        THEN \/ o.x < -20000 \/ o.x > 100000
             \/ Abs(o.y + delta - tick.depth * 100) > 120000
        ELSE /\ o.id \in idsOf(pass)
             /\ sameId(pass, o).y = o.y + delta
             /\ sameId(pass, o).x = o.x

\* C26: in every executed tick the world scroll delta returned by the craft
\* is added to the y of every live creature, obstacle and bubble before the
\* culling and the collision passes: an obstacle or a bubble has its y changed
\* by exactly the delta and its x unchanged, a creature is moved by the delta
\* and its own swimming (velocityY and a sway of at most 0.5), and no entity
\* is skipped
ScrollAppliedToEveryEntity ==
    Ticked =>
        /\ scrolledBy(tick.obstaclesBefore, tick.passObstacles, tick.worldOffsetY)
        /\ scrolledBy(tick.bubblesBefore, tick.passBubbles, tick.worldOffsetY)
        /\ \A m \in SeqToSet(tick.monstersBefore) :
              m.id \notin tick.culled
              => /\ m.id \in idsOf(tick.passMonsters)
                 /\ Abs(sameId(tick.passMonsters, m).y
                        - (m.y + tick.worldOffsetY + m.velocityY)) <= 50

\* C26 witness: a descending tick of 16 ms scrolled creatures, a rock and
\* bubbles by -2.88
WorldScrolledInTick ==
    /\ Ticked
    /\ tick.worldOffsetY = -288
    /\ tick.passMonsters # <<>>
    /\ tick.passObstacles # <<>>
    /\ Len(tick.passBubbles) = 2
    /\ tick.culled = {}

(***************************************************************************)
(* C27: the caps of the obstacle and bubble lists.  The game is started    *)
(* from states with three or four rocks and four or five bubbles alive,    *)
(* all away from the craft.                                                *)
(***************************************************************************)
RocksBelow(n, d) == [i \in 1..n |-> RockBelow(60 + i, d, 10000 * i)]

BubblesBelow(n, d) == [i \in 1..n |-> BubbleBelow(70 + i, d, 10000 * i + 5000)]

CrowdedScenarios ==
    {Scenario(FALSE, 2600, 9000, 10000, 10000, held, <<>>,
              RocksBelow(n[1], 2600), BubblesBelow(n[2], 2600), 2400) :
        held \in {{}, {"s"}}, n \in {<<3, 4>>, <<4, 5>>, <<3, 5>>}}

InitCrowded == hudPresent = TRUE /\ \E sc \in CrowdedScenarios : InitFrom(sc)

SpecCrowded == InitCrowded /\ [][Next]_vars

\* C27: in every reachable state there are at most 4 live obstacles and at
\* most 5 live bubbles, and an executed tick adds at most one obstacle and at
\* most one bubble
ListsWithinCaps ==
    /\ Len(obstacles) <= 4
    /\ Len(bubbles) <= 5
    /\ Ticked =>
          /\ Cardinality(idsOf(obstacles) \ idsOf(tick.obstaclesBefore)) <= 1
          /\ Cardinality(idsOf(bubbles) \ idsOf(tick.bubblesBefore)) <= 1

\* C27 witness: a tick that began with 4 obstacles and 5 bubbles alive drew an
\* obstacle and a bubble and spawned neither
SpawnRefusedAtCap ==
    /\ Ticked
    /\ Len(tick.obstaclesBefore) = 4 /\ Len(tick.bubblesBefore) = 5
    /\ tick.drawnObstacle /\ tick.drawnBubble
    /\ Len(obstacles) = 4 /\ Len(bubbles) = 5

(***************************************************************************)
(* C28: the creature pass and the obstacle pass share one table.           *)
(***************************************************************************)
\* the types of the entities of the pass named kind
typesOfPass(kind) == IF kind = "monsters" THEN CreatureTypes ELSE {"rock"}

\* C28: a call of the creature pass or of the obstacle pass holds back an
\* entity on the craft only for a stamp under 100 ms old that a report of the
\* same pass put on that entity; a stamp of a creature collision holds back
\* no obstacle and a stamp of an obstacle collision holds back no creature
PassesGatedIndependently ==
    (Called("monsters") \/ Called("obstacles")) =>
        \A id \in tick.overlapping \ tick.reported :
            /\ id \in DOMAIN tick.cooldownBefore
            /\ tick.now - tick.cooldownBefore[id] < 100
            /\ id \in DOMAIN lastReport
            /\ lastReport[id].time = tick.cooldownBefore[id]
            /\ lastReport[id].type \in typesOfPass(tick.pass)

\* C28 witness: the obstacle pass returned a rock on the craft while the
\* table held a stamp under 100 ms old of a creature collision
RockReportedDespiteCreatureStamp ==
    /\ Called("obstacles")
    /\ tick.reported # {}
    /\ \E id \in DOMAIN tick.cooldownBefore :
          /\ tick.now - tick.cooldownBefore[id] < 100
          /\ id \in DOMAIN lastReport
          /\ lastReport[id].type \in CreatureTypes

(***************************************************************************)
(* C29: the visible flag of the entities.  The game is started with a      *)
(* creature alive away from the craft.                                     *)
(***************************************************************************)
SonarScenarios ==
    {Scenario(FALSE, 1500, 9000, 10000, 10000, held,
              <<AnglerAside(81, 1500)>>, <<>>, <<>>, 1200) : held \in {{}, {"d"}}}

InitSonar == hudPresent = TRUE /\ \E sc \in SonarScenarios : InitFrom(sc)

SpecSonar == InitSonar /\ [][Next]_vars

\* C29 as stated: in every reachable state, the states between the sonar
\* timer and the next tick and the states with a menu open included, an
\* entity is visible only if the sonar is active
VisibleOnlyWhileSonarActive ==
    \A o \in SeqToSet(monsters) \cup SeqToSet(obstacles) \cup SeqToSet(bubbles) :
        o.visible => gameState.sonarActive


\* the debug rectangles on the canvas are those of the collision engine for
\* the craft and the lists given
debugRectsMatch(r, sub, ms, os, bs, d, camOffset) ==
    /\ r.debugCraft = getScreenHitbox(sub)
    /\ \A o \in SeqToSet(ms) \cup SeqToSet(os) \cup SeqToSet(bs) :
           \E b \in r.debugEntities :
               /\ b.id = o.id
               /\ b.rect = getWorldObjectScreenHitbox(o, calculateDepthOffset(d, camOffset))

\* C30 as stated: a frame rendered in debug mode shows the rectangle of each
\* world entity and the one of the craft where the collision engine tests
\* that object: the entity's hitbox moved by depthOffset exactly once, the
\* craft's screen hitbox with no camera translation
DebugRectsAtCollisionHitboxes ==
    [][(lastFrameTime' # lastFrameTime /\ loopRunning' /\ rendered'.debug) =>
          debugRectsMatch(rendered', submarine', monsters', obstacles', bubbles',
                          gameState'.depth, cameraOffset')]_vars

(***************************************************************************)
(* C31: the sonar window across a restart.  The game is started in the     *)
(* middle of a run with a pulse under way: activateSonar ran 3100 ms or    *)
(* 2000 ms ago (energy 100 -> 80, cooldown 5), one resource update has     *)
(* run since, and the timer of the pulse has not run yet.                  *)
(***************************************************************************)
WithSonar(sc, deadline) ==
    [sonarDeadline |-> deadline, sonarCooldown |-> 4984] @@ sc

PulseScenarios ==
    {WithSonar(Scenario(FALSE, 1500, 9000, 8002, 10000, {}, <<>>, <<>>, <<>>, 1200),
               60000 + late) : late \in {-100, 1000}}

InitPulse == hudPresent = TRUE /\ \E sc \in PulseScenarios : InitFrom(sc)

SpecPulse == InitPulse /\ [][Next]_vars

\* the deadline of the timer armed by the latest successful activateSonar
latestSonarDeadline == sonarTimers[Len(sonarTimers)]

\* C31 as stated: a step that turns the sonar off within a run comes no
\* earlier than 3000 ms after the activation that turned it on: a
\* deactivation scheduled in a previous run never shortens a window started
\* after restart
SonarWindowLastsFull3000 ==
    [][(gameState.sonarActive /\ ~gameState'.sonarActive /\ run' = run) =>
          clock' >= latestSonarDeadline]_vars

(***************************************************************************)
(* C32: Game.activateSonar called once on a game in mid-run, for energies  *)
(* around the threshold of 20, with and without the advancedSonar upgrade  *)
(* (reached at depth 5000), with the sonar idle, cooling down, or active.  *)
(***************************************************************************)
SonarCallScenarios ==
    LET base(d, e) == Scenario(FALSE, d, 9000, e, 10000, {}, <<>>, <<>>, <<>>, d - 300)
    IN  UNION {{base(d, e),
                [sonarCooldown |-> 16] @@ base(d, e),
                [sonarCooldown |-> 3000] @@ base(d, e),
                WithSonar(base(d, e), 61000)} :
                    d \in {1500, 5500},
                    e \in {0, 1000, 1999, 2000, 2001, 5000, 10000}}

InitSonarCall == hudPresent = TRUE /\ \E sc \in SonarCallScenarios : InitFrom(sc)

\* one call of game.activateSonar()
CallActivateSonar ==
    /\ tick = NoTick
    /\ activateSonar
    /\ tick' = [ran |-> FALSE, suspended |-> FALSE, called |-> "activateSonar",
                gameStateBefore |-> gameState, timersBefore |-> sonarTimers]
    /\ UNCHANGED <<monsters, obstacles, bubbles, upgrades, nextMonsterId, lastSpawnDepth,
                   lastResourceUpdate, gameOverTriggered, gameOverReason, debugMode,
                   menuOpen, claimedRewards, lastFrameTime, submarine, keys, cameraOffset,
                   targetCameraOffset, collisionCooldown, clock, endGameCalls, rendered,
                   run, lastReport, steps, hudPresent, listeners, destroyed, loopRunning, removedIds>>

SpecSonarCall == InitSonarCall /\ [][CallActivateSonar]_vars

SonarCalled == "called" \in DOMAIN tick /\ tick.called = "activateSonar"

\* C32: activateSonar takes effect only when energy >= 20, sonarCooldown <= 0
\* and the sonar is not active; it then subtracts 20 energy (10 with
\* advancedSonar), sets sonarActive and sets sonarCooldown to 5 (and arms the
\* 3000 ms timer); in every other case the game state and the timers are as
\* they were
ActivateSonarGuardedEffect ==
    SonarCalled =>
        LET before == tick.gameStateBefore
        IN  IF before.energy >= 2000 /\ before.sonarCooldown <= 0 /\ ~before.sonarActive
            THEN /\ gameState =
                        [before EXCEPT
                            !.energy = @ - (IF upgrades.advancedSonar THEN 1000 ELSE 2000),
                            !.sonarActive = TRUE,
                            !.sonarCooldown = 5000]
                 /\ sonarTimers = Append(tick.timersBefore, clock + 3000)
            ELSE /\ gameState = before
                 /\ sonarTimers = tick.timersBefore

\* a call refused for the cooldown alone, with energy to spare
SonarRefusedInCooldown ==
    /\ SonarCalled
    /\ tick.gameStateBefore.energy >= 2000
    /\ ~tick.gameStateBefore.sonarActive
    /\ tick.gameStateBefore.sonarCooldown > 0
    /\ gameState = tick.gameStateBefore

(***************************************************************************)
(* C33: the depth.                                                         *)
(***************************************************************************)
\* C33: within a run the depth changes only in an executed tick with the
\* descend key 's' held, and then by exactly +5 capped at 11000, whatever
\* deltaTime; every other step (a tick with only 'w' held included) leaves it,
\* so it never decreases within a run and is always a multiple of 5
DepthChangesOnlyByDescent ==
    [][/\ run' = run =>
            /\ (ExecutedTickStep /\ "s" \in keys)
                   => gameState'.depth = Min(11000, gameState.depth + 5)
            /\ ~(ExecutedTickStep /\ "s" \in keys)
                   => gameState'.depth = gameState.depth
            /\ gameState'.depth >= gameState.depth
       /\ gameState'.depth % 5 = 0]_vars

\* C33 witness: the first frame of a new game, whose deltaTime is not a
\* frame's 16 ms, ran with 's' held and took the depth from 0 to 5
DescendedOnOddFrame ==
    /\ Ticked
    /\ "s" \in tick.keys
    /\ tick.deltaTime # 16
    /\ gameState.depth = 5

(***************************************************************************)
(* C34: creature spawning.                                                 *)
(***************************************************************************)
\* the creatures in the list after the step that were created in it
spawnedCreatures == {m \in SeqToSet(monsters') : m.id >= nextMonsterId}

\* C34: in an executed tick creature spawning never fires when
\* depth - lastSpawnDepth < 400 and always fires when it is >= 700; when it
\* fires it adds exactly min(1 + floor(depth / 2000), 3) creatures, each with
\* world y in [depth + 600, depth + 1000] and x equal to -100 or 900, and sets
\* lastSpawnDepth to the current depth
CreatureSpawnRule ==
    [][ExecutedTickStep =>
          LET d   == gameState'.depth
              gap == d - lastSpawnDepth
          IN  /\ gap < 400 => spawnedCreatures = {}
              /\ gap >= 700 => spawnedCreatures # {}
              /\ spawnedCreatures = {} => lastSpawnDepth' = lastSpawnDepth
              /\ spawnedCreatures # {} =>
                    /\ Cardinality(spawnedCreatures) = Min(1 + d \div 2000, 3)
                    /\ \A m \in spawnedCreatures :
                          /\ m.y >= d * 100 + 60000
                          /\ m.y <= d * 100 + 100000
                          /\ m.x \in {-10000, 90000}
                    /\ lastSpawnDepth' = d]_vars

\* C34 witness: the tick that reached 700 past the last spawn, at depth 4700,
\* spawned three creatures
ThreeSpawnedAt700 ==
    /\ Ticked
    /\ gameState.depth = 4700
    /\ lastSpawnDepth = 4700
    /\ Len(monsters) = 3

(***************************************************************************)
(* C35: the upgrades.  The game is started one descending tick before each *)
(* upgrade threshold, with and without the descend key held.               *)
(***************************************************************************)
UpgradeScenarios ==
    {Scenario(FALSE, d, 9000, 10000, 10000, held, <<>>, <<>>, <<>>, d - 200) :
        d \in {2995, 4995, 6995, 8995}, held \in {{"s"}, {"w"}}}

InitUpgrades == hudPresent = TRUE /\ \E sc \in UpgradeScenarios : InitFrom(sc)

SpecUpgrades == InitUpgrades /\ [][Next]_vars

\* C35: at the end of every executed tick each upgrade flag is true exactly
\* when the depth has reached its threshold in the current run (oxygenTank
\* 3000, advancedSonar 5000, reinforcedHull 7000, turboThrust 9000), and a
\* flag that is true does not become false before restart
UpgradesFollowDepth ==
    [][/\ ExecutedTickStep =>
            upgrades' = [oxygenTank     |-> gameState'.depth >= 3000,
                         advancedSonar  |-> gameState'.depth >= 5000,
                         reinforcedHull |-> gameState'.depth >= 7000,
                         turboThrust    |-> gameState'.depth >= 9000]
       /\ run' = run => \A f \in DOMAIN upgrades : upgrades[f] => upgrades'[f]]_vars

\* C35 witness: a descending tick reached 7000 and unlocked the hull
HullUnlockedAt7000 ==
    /\ Ticked
    /\ "s" \in tick.keys
    /\ gameState.depth = 7000
    /\ upgrades.reinforcedHull
    /\ ~upgrades.turboThrust

(***************************************************************************)
(* C36: the run state and the terminal conditions.                         *)
(***************************************************************************)
\* C36: in every state between ticks gameOverTriggered is false if and only
\* if health > 0, oxygen > 0 and depth < 11000: no run stays under way with a
\* terminal condition satisfied, and none is over without one
GameOverIffTerminalCondition ==
    ~gameOverTriggered <=>
        (gameState.health > 0 /\ gameState.oxygen > 0 /\ gameState.depth < 11000)

\* C36 witness: the hull gave out above the bottom with oxygen left, and the
\* run is over
HullGaveOutRunOver ==
    /\ gameOverTriggered
    /\ gameState.health <= 0
    /\ gameState.oxygen > 0
    /\ gameState.depth < 11000

(***************************************************************************)
(* C37: the oxygen runs out.  The game is followed from a run in which the *)
(* oxygen has been drained to its last 0.05 or 0.10 points, with no        *)
(* bubble within reach, frame after frame for as long as the run lasts,    *)
(* with no key, the left key or the descend key held and no menu opened.   *)
(***************************************************************************)
\* the run is followed for this many ms after its start at 60000
DrainHorizon == 60200

DrainScenarios ==
    {Scenario(FALSE, 1000, oxygen, 10000, 10000, held, <<>>, <<>>, <<>>, 800) :
        oxygen \in {5, 10}, held \in {{}, {"a"}, {"s"}}}

InitDrain == hudPresent = TRUE /\ \E sc \in DrainScenarios : InitFrom(sc)

\* an animation frame of a run under way: requestAnimationFrame(gameLoop) at
\* the end of every frame schedules the next one
DrainFrame ==
    /\ ~gameOverTriggered
    /\ clock < DrainHorizon
    /\ \E gap \in FrameGaps : runFrame(gap)
    /\ UNCHANGED steps

SpecDrain == InitDrain /\ [][DrainFrame]_vars /\ WF_vars(DrainFrame)

\* the last executed tick collected a bubble
BubbleCollected == Ticked /\ tick.bubbleCollisions # <<>>

\* C37: if ticks keep executing with no menu open, time keeps advancing and
\* the player collects no bubble, the run eventually reaches game over
RunEventuallyOver == ([]~BubbleCollected) => <>gameOverTriggered

\* C37 witness: the oxygen of a run went from 0.10 to 0 by the decay of the
\* throttled resource updates, and the run is over for that reason
DrainedToGameOver ==
    /\ gameOverTriggered
    /\ gameOverReason = OxygenReason
    /\ gameState.oxygen = 0
    /\ Ticked /\ tick.decayed /\ tick.oxygenBefore = 5
    /\ clock >= 60000 + 5 * 16

(***************************************************************************)
(* C38: InputHandler.destroy.                                              *)
(***************************************************************************)
\* InputHandler.destroy (lines 131-135): three calls of removeEventListener,
\* each with an arrow function written in place
destroy ==
    /\ steps < MaxSteps
    /\ ~destroyed
    /\ steps' = steps + 1
    /\ listeners' =
           LET l1 == removeEventListener(listeners, "keydown", newFunction(listeners, 1))
               l2 == removeEventListener(l1, "keyup", newFunction(listeners, 2))
           IN  removeEventListener(l2, "wheel", newFunction(listeners, 3))
    /\ destroyed' = TRUE
    /\ UNCHANGED <<gameState, monsters, obstacles, bubbles, upgrades, nextMonsterId,
                   lastSpawnDepth, lastResourceUpdate, gameOverTriggered, gameOverReason,
                   debugMode, menuOpen, claimedRewards, lastFrameTime, submarine, keys,
                   cameraOffset, targetCameraOffset, collisionCooldown, clock,
                   sonarTimers, endGameCalls, tick, rendered, run, lastReport,
                   hudPresent, loopRunning, removedIds>>

\* a new game, and a game in mid-run with a key held
InitDestroy ==
    /\ hudPresent = TRUE
    /\ \E sc \in {Scenario(TRUE, 0, 10000, 10000, 10000, {}, <<>>, <<>>, <<>>, 0),
                  Scenario(FALSE, 1500, 9000, 10000, 10000, {"d"}, <<>>, <<>>, <<>>, 1200)} :
          InitFrom(sc)

SpecDestroy == InitDestroy /\ [][Next \/ destroy]_vars

\* C38 as stated: after InputHandler.destroy() the keydown, keyup and wheel
\* listeners are no longer attached, so that later key and wheel events do
\* not change the held-key set or the camera target and invoke neither
\* activateSonar nor toggleDebugMode: within a run no later step changes the
\* key set, the camera target or the debug mode, or arms a sonar timer
InputDeadAfterDestroy ==
    [][(destroyed /\ run' = run) =>
          /\ keys' = keys
          /\ targetCameraOffset' = targetCameraOffset
          /\ debugMode' = debugMode
          /\ Len(sonarTimers') <= Len(sonarTimers)]_vars

====
